---- MODULE Spec2Model ----
(***************************************************************************)
(* A model of the request-admission core of the payment gateway backend:  *)
(*   - the sliding-window rate limiter of app/rate_limiting.py            *)
(*   - the idempotency-keyed create/refund pipeline of                    *)
(*     app/payments/service.py                                            *)
(* Every store operation the code awaits is one atomic step of the model, *)
(* so that concurrent requests interleave exactly where the code can be   *)
(* suspended.                                                             *)
(***************************************************************************)
EXTENDS Integers, FiniteSets, Sequences, TLC

(***************************************************************************)
(* Bounds of the model.                                                    *)
(***************************************************************************)
MaxCalls == 3           \* check_rate_limit calls issued one after another
MaxConcurrent == 2      \* check_rate_limit calls that may overlap
MaxLimit == 2           \* the largest request limit tried
MaxPayRequests == 2     \* create/refund calls issued one after another
MaxPayConcurrent == 2   \* create/refund calls that may overlap
MaxGwConcurrent == 2    \* requests that may overlap in authenticate_request
MaxMgmtCalls == 2       \* revoke, rotate and delete calls
MaxKeysIssued == 2      \* key values issued for one key id
MaxWireAmount == 150    \* the largest amount of minor units put on the wire

(***************************************************************************)
(* Program constants (app/rate_limiting.py).                               *)
(***************************************************************************)
RATE_LIMIT_WINDOW == 60
RATE_LIMIT_KEY_TTL == RATE_LIMIT_WINDOW * 2
RATE_LIMIT_KEY_PREFIX == "ratelimit"

None == "None"

Max(a, b) == IF a >= b THEN a ELSE b

SetMin(S) == CHOOSE x \in S : \A y \in S : x <= y

VARIABLES
    now,            \* the wall clock in whole seconds, int(time.time())
    redis_client,   \* whether the process holds a shared-store client
    tier_limit,     \* the request limit of each identifier's tier
    zset,           \* the store's sorted sets: rate-limit key -> scores held
    ttl,            \* the store's expiry deadline of each rate-limit key
    calls,          \* the check_rate_limit invocations: locals and position
    supabase_client,\* whether the service holds a database client
    idem,           \* the store's idempotency entries: cache key -> entry
    payments,       \* the rows of the payments table, by internal id
    audit_logs,     \* the rows of the audit_logs table
    provider_configured, \* whether the provider's credentials are configured
    reqs,           \* the create/refund invocations: arguments, locals, position
    settings,       \* the configured bootstrap key and static admin keys
    customers,      \* the rows of the customers table: tenant -> tier, user
    api_keys,       \* the rows of the api_keys table, by key id
    key_cache,      \* the store's api_key:<key> entries
    gw,             \* the requests in the middleware: headers, locals, position
    mgmt            \* the key-management invocations: arguments, position

rlVars == <<now, redis_client, tier_limit, zset, ttl, calls>>

payVars == <<supabase_client, idem, payments, audit_logs, provider_configured, reqs>>

gwVars == <<settings, customers, api_keys, key_cache, gw, mgmt>>

vars == <<now, redis_client, tier_limit, zset, ttl, calls,
          supabase_client, idem, payments, audit_logs, provider_configured, reqs,
          settings, customers, api_keys, key_cache, gw, mgmt>>

(***************************************************************************)
(* Rate limiter: app/rate_limiting.py                                      *)
(***************************************************************************)
Identifiers == {"customer:t1"}

\* The key under which an identifier's window is stored.
get_rate_limit_key(identifier) == <<RATE_LIMIT_KEY_PREFIX, identifier>>

\* The identifiers the middleware derives: a tenant's, or the client address.
GatewayIdentifiers == {"customer:tA", "customer:tB", "ip:10.0.0.1"}

RateLimitKeys == {get_rate_limit_key(i) : i \in Identifiers \cup GatewayIdentifiers}

Limits == 1..MaxLimit

CallIds == 1..Max(MaxCalls, MaxConcurrent)

\* The instants the clock is read at: the seconds around a window's end, and
\* the second at which a key set at 0 expires.
TimePoints ==
    {0, 1, RATE_LIMIT_WINDOW - 1, RATE_LIMIT_WINDOW, RATE_LIMIT_WINDOW + 1,
     RATE_LIMIT_KEY_TTL}

NoExpiry == -1

IdleCall ==
    [pc |-> "idle", key |-> None, limit |-> 0, now |-> 0,
     current_count |-> 0, remaining |-> 0, is_exceeded |-> FALSE,
     reset_at |-> 0, path |-> None, did_zadd |-> FALSE, did_expire |-> FALSE,
     accessor |-> FALSE, identifier |-> None]

InFlight(c) == calls[c].pc \notin {"idle", "done"}

\* zremrangebyscore(key, lo, hi): both ends of the score range are inclusive.
zremrangebyscore_strict(S, lo, hi) == {s \in S : ~(lo <= s /\ s < hi)}

zremrangebyscore(S, lo, hi) == {s \in S : ~(lo <= s /\ s <= hi)}

\* zadd(key, {str(now): now}): the member is the decimal text of the score, so
\* a second request in the same clock second rewrites the same member.
zadd(S, member_score) == S \cup {member_score}

\* The RateLimitInfo returned when the store is absent or an operation raised.
FailOpenInfo(c, how) ==
    [c EXCEPT !.pc = "done", !.remaining = c.limit,
              !.reset_at = c.now + RATE_LIMIT_WINDOW,
              !.is_exceeded = FALSE, !.path = how]

OnStoreError_propagates(c) == [c EXCEPT !.pc = "raised", !.path = "failopen"]

\* The except clause of check_rate_limit: every error raised inside the try
\* block is answered with the fail-open RateLimitInfo.
OnStoreError(c) == FailOpenInfo(c, "failopen")

TakesSlot_always(is_exceeded) == TRUE

\* `if not is_exceeded:` guards the insert and the expiry refresh.
TakesSlot(is_exceeded) == ~is_exceeded

RLEnter_one_window(identifier, limit) ==
    LET c0 == [IdleCall EXCEPT !.key = get_rate_limit_key("ip:10.0.0.1"),
                               !.identifier = identifier,
                               !.limit = limit, !.now = now]
    IN  IF redis_client THEN [c0 EXCEPT !.pc = "pipeline"]
        ELSE FailOpenInfo(c0, "noredis")

\* check_rate_limit entry: the clock is read, the key is built.  With no
\* store client the call returns at once.
RLEnter(identifier, limit) ==
    LET c0 == [IdleCall EXCEPT !.key = get_rate_limit_key(identifier),
                               !.identifier = identifier,
                               !.limit = limit, !.now = now]
    IN  IF redis_client THEN [c0 EXCEPT !.pc = "pipeline"]
        ELSE FailOpenInfo(c0, "noredis")

\* A call takes the lowest free slot of the model.
RLStart(c, identifier, limit) ==
    /\ calls[c].pc = "idle"
    /\ \A d \in CallIds : d < c => calls[d].pc # "idle"
    /\ calls' = [calls EXCEPT ![c] = RLEnter(identifier, limit)]
    /\ UNCHANGED <<now, redis_client, tier_limit, zset, ttl, payVars, gwVars>>

\* get_rate_limit_info: the accessor returns check_rate_limit(redis_client,
\* identifier, limit) for the identifier and the limit of the request.
get_rate_limit_info(c, identifier, limit) ==
    /\ calls[c].pc = "idle"
    /\ \A d \in CallIds : d < c => calls[d].pc # "idle"
    /\ calls' = [calls EXCEPT ![c] =
                  [RLEnter(identifier, limit) EXCEPT !.accessor = TRUE]]
    /\ UNCHANGED <<now, redis_client, tier_limit, zset, ttl, payVars, gwVars>>

\* pipe.zremrangebyscore(key, 0, window_start); pipe.zcard(key); pipe.execute()
\* and the two assignments that follow it.
RLPipeline(c) ==
    /\ calls[c].pc = "pipeline"
    /\ LET k == calls[c].key
           window_start == calls[c].now - RATE_LIMIT_WINDOW
           kept == zremrangebyscore(zset[k], 0, window_start)
           current_count == Cardinality(kept)
       IN  /\ zset' = [zset EXCEPT ![k] = kept]
           \* a sorted set that becomes empty is deleted, and its expiry with it
           /\ ttl' = [ttl EXCEPT ![k] = IF kept = {} THEN NoExpiry ELSE @]
           /\ calls' = [calls EXCEPT ![c] =
                 [@ EXCEPT !.pc = "zrange",
                           !.current_count = current_count,
                           !.remaining = Max(0, calls[c].limit - current_count),
                           !.is_exceeded = (current_count >= calls[c].limit)]]
    /\ UNCHANGED <<now, redis_client, tier_limit, payVars, gwVars>>

\* oldest = zrange(key, 0, 0, withscores=True), then the reset time; an
\* exceeded call returns here.
RLZrange(c) ==
    /\ calls[c].pc = "zrange"
    /\ LET k == calls[c].key
           reset_at == IF zset[k] # {}
                       THEN SetMin(zset[k]) + RATE_LIMIT_WINDOW
                       ELSE calls[c].now + RATE_LIMIT_WINDOW
           goes_on == TakesSlot(calls[c].is_exceeded)
       IN  calls' = [calls EXCEPT ![c] =
                 [@ EXCEPT !.reset_at = reset_at,
                           !.pc = IF goes_on THEN "zadd" ELSE "done",
                           !.path = IF goes_on THEN None ELSE "ok"]]
    /\ UNCHANGED <<now, redis_client, tier_limit, zset, ttl, payVars, gwVars>>

\* zadd(key, {str(now): now})
RLZadd(c) ==
    /\ calls[c].pc = "zadd"
    /\ zset' = [zset EXCEPT ![calls[c].key] = zadd(@, calls[c].now)]
    /\ calls' = [calls EXCEPT ![c] = [@ EXCEPT !.pc = "expire", !.did_zadd = TRUE]]
    /\ UNCHANGED <<now, redis_client, tier_limit, ttl, payVars, gwVars>>

RLExpire_keeps_remaining(c) ==
    /\ calls[c].pc = "expire"
    /\ ttl' = [ttl EXCEPT ![calls[c].key] =
                  IF zset[calls[c].key] # {} THEN now + RATE_LIMIT_KEY_TTL ELSE @]
    /\ calls' = [calls EXCEPT ![c] =
                  [@ EXCEPT !.pc = "done", !.did_expire = TRUE, !.path = "ok"]]
    /\ UNCHANGED <<now, redis_client, tier_limit, zset, payVars, gwVars>>

\* expire(key, RATE_LIMIT_WINDOW * 2); remaining = max(0, remaining - 1); return
RLExpire(c) ==
    /\ calls[c].pc = "expire"
    /\ ttl' = [ttl EXCEPT ![calls[c].key] =
                  IF zset[calls[c].key] # {} THEN now + RATE_LIMIT_KEY_TTL ELSE @]
    /\ calls' = [calls EXCEPT ![c] =
                  [@ EXCEPT !.pc = "done", !.did_expire = TRUE, !.path = "ok",
                            !.remaining = Max(0, calls[c].remaining - 1)]]
    /\ UNCHANGED <<now, redis_client, tier_limit, zset, payVars, gwVars>>

\* Any awaited store operation may raise; the except clause answers.
RLStoreFails(c) ==
    /\ calls[c].pc \in {"pipeline", "zrange", "zadd", "expire"}
    /\ calls' = [calls EXCEPT ![c] = OnStoreError(calls[c])]
    /\ UNCHANGED <<now, redis_client, tier_limit, zset, ttl, payVars, gwVars>>

\* Time passes; the store drops the keys whose expiry deadline is reached.
Tick ==
    /\ \E t \in TimePoints :
         /\ t > now
         /\ now' = t
         /\ zset' = [k \in RateLimitKeys |->
                        IF ttl[k] # NoExpiry /\ t >= ttl[k] THEN {} ELSE zset[k]]
         /\ ttl' = [k \in RateLimitKeys |->
                        IF ttl[k] # NoExpiry /\ t >= ttl[k] THEN NoExpiry ELSE ttl[k]]
    /\ UNCHANGED <<redis_client, tier_limit, calls, payVars, gwVars>>

(***************************************************************************)
(* Payments: app/payments/service.py, app/payments/types.py                *)
(***************************************************************************)
IDEMPOTENCY_PREFIX == "idempotency:"
IDEMPOTENCY_TTL_SECONDS == 86400

Tenants == {"tA", "tB"}

\* The Idempotency-Key headers the clients present.
IdemKeys == {"k1"}

Ops == {"create", "refund"}

\* The members of the PaymentProvider enumeration.
Providers == {"stripe", "paypal"}

\* The currency codes the clients send, in either case.
Currencies == {"USD", "usd", "JPY", "jpy", "EUR"}

\* str.upper() on the currency codes tried.
currency_upper(currency) ==
    IF currency = "usd" THEN "USD" ELSE IF currency = "jpy" THEN "JPY" ELSE currency

\* str.lower() on the currency codes tried.
currency_lower(currency) ==
    IF currency = "USD" THEN "usd" ELSE IF currency = "JPY" THEN "jpy"
    ELSE IF currency = "EUR" THEN "eur" ELSE currency

ReqIds == 1..Max(MaxPayRequests, MaxPayConcurrent)

\* Row 0 is a payment completed before the first request of the model.
PayIds == {0} \cup ReqIds

Amounts == {100}

\* RefundPaymentRequest.amount is None for a full refund.
NoAmount == 0

RefundAmounts == {NoAmount}

\* str(uuid4()) of the request that minted it, and the ids the provider mints.
PaymentId(n) == <<"pay", n>>

ProviderTxnId(n) == <<"ptx", n>>

RefundId(n) == <<"re", n>>

\* The refund_id column of a payment that was never refunded.
NoRefundId == RefundId(0)

TraceId(n) == <<"trace", n>>

\* The path parameter of a refund: the payment of row 0, or the payment the
\* first request creates (unknown until then).
RefundTargets == {PaymentId(0), PaymentId(1)}

\* The instants the clock is read at, around the expiry of a cache entry.
PayTimePoints == {0, IDEMPOTENCY_TTL_SECONDS - 1, IDEMPOTENCY_TTL_SECONDS}

PaymentStatusValues == {"pending", "completed", "failed", "refunded", "processing"}

\* A member of the PaymentStatus enumeration, as opposed to its text.
PaymentStatus(v) == <<"PaymentStatus", v>>

CreateResultStatuses == {"completed"}

RefundResultStatuses == {"refunded"}

\* Typed errors the adapters raise (app/payments/errors.py).
CreateErrors == {"PAYMENT_FAILED"}

RefundErrors == {"REFUND_FAILED"}

\* f"{IDEMPOTENCY_PREFIX}{idempotency_key}"
cache_key(idempotency_key) == <<IDEMPOTENCY_PREFIX, idempotency_key>>

CacheKeys == {cache_key(k) : k \in IdemKeys}

entry_deadline_one_second(set_at) == set_at + 1

\* redis.set(cache_key, ..., ex=IDEMPOTENCY_TTL_SECONDS): the second at which
\* the entry stops being readable.
entry_deadline(set_at) == set_at + IDEMPOTENCY_TTL_SECONDS

\* The fields of the two response models, and those without a default.
ModelFields(op) ==
    IF op = "create"
    THEN {"id", "provider_transaction_id", "amount", "currency", "status",
          "created_at", "trace_id"}
    ELSE {"refund_id", "original_transaction_id", "amount", "status",
          "created_at", "trace_id"}

RequiredFields(op) == ModelFields(op) \ {"trace_id"}

\* json.dumps(response.model_dump()): a member of a str-based enumeration is
\* written as its text.
json_dumps(response) ==
    [f \in DOMAIN response |->
        IF f = "status" THEN response[f][2] ELSE response[f]]

\* Model(**json.loads(cached)): every required field must be present and the
\* status text must name a member; fields the model lacks are ignored.  The
\* result is <<model>>, or << >> when validation raises.
model_validate(op, payload) ==
    IF /\ RequiredFields(op) \subseteq DOMAIN payload
       /\ payload["status"] \in PaymentStatusValues
    THEN <<[f \in ModelFields(op) |->
              IF f \notin DOMAIN payload THEN None
              ELSE IF f = "status" THEN PaymentStatus(payload[f])
              ELSE payload[f]]>>
    ELSE << >>

CreatePaymentResponse(payment_id, result, amount, currency, created_at, trace_id) ==
    [id |-> payment_id,
     provider_transaction_id |-> result.provider_transaction_id,
     amount |-> amount, currency |-> currency_upper(currency),
     status |-> result.status,
     created_at |-> created_at, trace_id |-> trace_id]

RefundPaymentResponse(payment, result, created_at, trace_id) ==
    [refund_id |-> result.refund_id,
     original_transaction_id |-> payment.provider_transaction_id,
     amount |-> result.amount, status |-> result.status,
     created_at |-> created_at, trace_id |-> trace_id]

\* A row of the payments table as _save_payment_to_db inserts it.  Its
\* customer_id is the request's own customer_id field, which the callers of
\* the model set to their tenant.
PaymentRow(payment_id, provider, result, amount, currency, customer_id) ==
    [id |-> payment_id, provider |-> provider,
     provider_transaction_id |-> result.provider_transaction_id,
     amount |-> amount, currency |-> currency_upper(currency),
     status |-> result.status[2],
     customer_id |-> customer_id, refund_id |-> NoRefundId,
     refund_status |-> None, refund_amount |-> NoAmount]

SeedPayment ==
    [id |-> PaymentId(0), provider |-> "stripe",
     provider_transaction_id |-> ProviderTxnId(0),
     amount |-> 100, currency |-> "USD", status |-> "completed",
     customer_id |-> "tA", refund_id |-> NoRefundId,
     refund_status |-> None, refund_amount |-> NoAmount]

NoPaymentId == PaymentId(-1)

IdleReq ==
    [pc |-> "idle", op |-> None, customer_id |-> None, idempotency_key |-> None,
     provider |-> None, currency |-> None, adapter |-> None, sent |-> << >>,
     sync |-> "skipped", trace |-> 0,
     amount |-> NoAmount, payment_id |-> NoPaymentId, began_at |-> 0,
     cache_get |-> "skipped", cached |-> << >>, payment |-> << >>,
     called |-> FALSE, raised |-> None, result |-> << >>, response |-> << >>,
     saved |-> "skipped", cache_set |-> "skipped", cached_at |-> 0,
     outcome |-> None, error |-> None, audit |-> None, caller |-> None]

ReqInFlight(r) == reqs[r].pc \notin {"idle", "done"}

reraise_as_internal(e) == "INTERNAL_ERROR"

\* The bare `raise` that ends both except clauses: the caught error leaves
\* the service as it was raised.
reraise(e) == e

\* The call leaves the service with an error.
Raised(q, e) == [q EXCEPT !.pc = "done", !.outcome = "error", !.error = e]

\* The call leaves the service with the response it holds.
Returned(q) == [q EXCEPT !.pc = "done", !.outcome = "ok"]

\* log_payment_audit: the row is inserted when a database client exists.
\* (Database operations are taken to succeed whenever the client exists.)
AuditInsert(rows, r, action) ==
    IF supabase_client THEN rows \cup {<<TraceId(r), action>>} ELSE rows

\* create_payment / refund_payment entry and the idempotency lookup
\* (_get_cached_response): no lookup without a store client or a key, a read
\* that raises counts as a miss, a hit is parsed into the response model and
\* returned.
PayBeginWith(r, op, customer_id, idempotency_key, amount, payment_id, provider, currency) ==
    /\ reqs[r].pc = "idle"
    /\ \A d \in ReqIds : d < r => reqs[d].pc # "idle"
    /\ LET looked == redis_client /\ idempotency_key # None
       IN  \E store_ok \in (IF looked THEN BOOLEAN ELSE {TRUE}) :
             LET entry == IF looked /\ store_ok
                          THEN idem[cache_key(idempotency_key)] ELSE << >>
                 q0 == [IdleReq EXCEPT
                          !.op = op, !.customer_id = customer_id,
                          !.idempotency_key = idempotency_key,
                          !.amount = amount, !.payment_id = payment_id,
                          !.provider = provider, !.currency = currency,
                          !.began_at = now,
                          !.cache_get = IF ~looked THEN "skipped"
                                        ELSE IF ~store_ok THEN "error"
                                        ELSE IF entry = << >> THEN "miss"
                                        ELSE "hit"]
             IN  reqs' = [reqs EXCEPT ![r] =
                   IF entry = << >>
                   THEN [q0 EXCEPT !.pc = IF op = "create" THEN "adapter"
                                          ELSE "lookup"]
                   ELSE LET parsed == model_validate(op, entry[1].payload)
                        IN  IF parsed = << >>
                            THEN Raised([q0 EXCEPT !.cached = <<entry[1].payload>>],
                                        "VALIDATION_ERROR")
                            ELSE Returned([q0 EXCEPT
                                             !.cached = <<entry[1].payload>>,
                                             !.response = parsed])]
    /\ UNCHANGED <<gwVars, rlVars, supabase_client, idem, payments, audit_logs,
                   provider_configured>>

\* A create of a card payment in dollars, or a refund (whose body names
\* neither provider nor currency).
PayBegin(r, op, customer_id, idempotency_key, amount, payment_id) ==
    PayBeginWith(r, op, customer_id, idempotency_key, amount, payment_id,
                 IF op = "create" THEN "stripe" ELSE None,
                 IF op = "create" THEN "USD" ELSE None)

\* _get_payment_from_db: by internal id, else by the provider's id.  It runs
\* before the try block, so its error leaves the service unaudited.
PayLookup(r) ==
    /\ reqs[r].pc = "lookup"
    /\ LET q == reqs[r]
           byId == {n \in PayIds : /\ payments[n] # << >>
                                   /\ payments[n][1].id = q.payment_id}
           byTxn == {n \in PayIds :
                        /\ payments[n] # << >>
                        /\ payments[n][1].provider_transaction_id = q.payment_id}
           rows == IF byId # {} THEN byId ELSE byTxn
       IN  reqs' = [reqs EXCEPT ![r] =
             IF ~supabase_client \/ rows = {}
             THEN Raised(q, "PAYMENT_NOT_FOUND")
             ELSE [q EXCEPT !.pc = IF q.op = "status" THEN "sync" ELSE "adapter",
                            !.payment = payments[CHOOSE n \in rows : TRUE]]]
    /\ UNCHANGED <<gwVars, rlVars, supabase_client, idem, payments, audit_logs,
                   provider_configured>>

\* zero_decimal_currencies of PaymentProviderAdapter.is_zero_decimal_currency.
zero_decimal_currencies ==
    {"BIF", "CLP", "DJF", "GNF", "JPY", "KMF", "KRW", "MGA", "PYG", "RWF",
     "UGX", "VND", "VUV", "XAF", "XOF", "XPF"}

is_zero_decimal_currency_never(currency) == FALSE

\* currency.upper() in zero_decimal_currencies
is_zero_decimal_currency(currency) ==
    currency_upper(currency) \in zero_decimal_currencies

\* f"{amount / 100:.2f}": the quotient written with two decimals.
format_2f(amount) ==
    ToString(amount \div 100) \o "." \o ToString((amount % 100) \div 10)
        \o ToString(amount % 10)

\* The amounts below MaxWireAmount whose two-decimal text, read back by
\* float() and multiplied by 100, falls just under the whole number, so that
\* int() yields one less (int(float("0.29") * 100) is 28).
FloatShort == {29, 57, 58, 113, 114, 115, 116}

\* int(float(text) * 100) of a two-decimal text.
int_of_float_times_100(text) ==
    LET a == CHOOSE n \in 0..MaxWireAmount : format_2f(n) = text
    IN  IF a \in FloatShort THEN a - 1 ELSE a

\* int(float(text)) of the text of a whole number.
int_of_float(text) == CHOOSE n \in 0..MaxWireAmount : ToString(n) = text

\* PayPalAdapter: the decimal text of an amount of minor units.
paypal_value(amount, currency) ==
    IF is_zero_decimal_currency(currency) THEN ToString(amount)
    ELSE format_2f(amount)

paypal_refund_amount_cents_times_100(value, currency) ==
    IF is_zero_decimal_currency(currency) THEN int_of_float(value) * 100
    ELSE int_of_float_times_100(value)

\* PayPalAdapter.refund_payment: the refund's amount in minor units, from the
\* decimal text of the provider's answer.
paypal_refund_amount_cents(value, currency) ==
    IF is_zero_decimal_currency(currency) THEN int_of_float(value)
    ELSE int_of_float_times_100(value)

\* StripeAdapter.create_payment: the parameters of PaymentIntent.create.
StripeIntent(amount, currency) ==
    [amount |-> amount, currency |-> currency_lower(currency_upper(currency))]

\* PayPalAdapter.create_payment: the amount of the order's purchase unit.
PayPalOrder(amount, currency) ==
    [currency_code |-> currency_upper(currency),
     value |-> paypal_value(amount, currency_upper(currency))]

\* What adapter.create_payment puts on the wire.
CreateSent(provider, amount, currency) ==
    IF provider = "stripe" THEN StripeIntent(amount, currency)
    ELSE PayPalOrder(amount, currency)

\* What adapter.refund_payment puts on the wire: the amount is left out of a
\* full refund.
RefundSent(payment, amount) ==
    IF amount = NoAmount THEN [of |-> payment.provider_transaction_id]
    ELSE IF payment.provider = "stripe"
    THEN [of |-> payment.provider_transaction_id, amount |-> amount]
    ELSE [of |-> payment.provider_transaction_id,
          currency_code |-> payment.currency,
          value |-> paypal_value(amount, payment.currency)]

refund_provider_stripe(payment) == "stripe"

\* provider = PaymentProvider(payment["provider"]): a refund goes to the
\* adapter of the provider stored on the row.
refund_provider(payment) == payment.provider

\* What the provider may answer to a create or a refund: a status, or a
\* typed error.
AdapterAnswers(op) ==
    IF op = "create" THEN CreateResultStatuses \cup CreateErrors
    ELSE RefundResultStatuses \cup RefundErrors

\* The answers of a provider to a refund: it refuses to refund more than the
\* payment's amount; the PayPal adapter maps every status of a refund to
\* "refunded" or "processing".
ProviderRefundAnswers(q, RefundAnswers) ==
    IF q.amount # NoAmount /\ q.amount > q.payment[1].amount
    THEN RefundAnswers \cap RefundErrors
    ELSE IF q.payment[1].provider = "paypal"
    THEN RefundAnswers \ {"failed"}
    ELSE RefundAnswers

\* adapter.create_payment(...): the provider mints a transaction id.
CreateResult(r, answer) ==
    [provider_transaction_id |-> ProviderTxnId(r), status |-> PaymentStatus(answer)]

\* adapter.refund_payment(...): the provider mints a refund id and reports the
\* amount it refunded, the whole payment when no amount was asked for.  The
\* Stripe adapter hands on the provider's amount of minor units; the PayPal
\* adapter computes it from the decimal text of the answer.
RefundResult(r, answer, amount, payment) ==
    LET refunded == IF amount = NoAmount THEN payment.amount ELSE amount
    IN  [refund_id |-> RefundId(r), status |-> PaymentStatus(answer),
         amount |-> IF payment.provider = "stripe" THEN refunded
                    ELSE paypal_refund_amount_cents(
                            paypal_value(refunded, payment.currency),
                            payment.currency)]

\* _update_payment_refund: the rows whose id equals the path parameter.
RefundUpdate(rows, payment_id, result) ==
    [n \in PayIds |->
        IF rows[n] # << >> /\ rows[n][1].id = payment_id
        THEN <<[rows[n][1] EXCEPT
                  !.refund_id = result.refund_id,
                  !.refund_status = result.status[2],
                  !.refund_amount = result.amount,
                  !.status = IF result.status[2] = "refunded" THEN "refunded"
                             ELSE "processing"]>>
        ELSE rows[n]]

PayFinish_checks_save(q) ==
    IF q.saved = "error" THEN Raised(q, "INTERNAL_ERROR")
    ELSE [Returned(q) EXCEPT !.audit = "success"]

\* The success audit and the return that end both operations.
PayFinish(q) == [Returned(q) EXCEPT !.audit = "success"]

\* The except clause of both operations: the failure is audited and the
\* error re-raised.
PayFail(q, e) == [Raised(q, reraise(e)) EXCEPT !.raised = e, !.audit = "failure"]

PayAdapterAs_marks_failed(r, DbAnswers, RefundAnswers) ==
    /\ reqs[r].pc = "adapter"
    /\ provider_configured
    /\ LET q == reqs[r]
           qs == [q EXCEPT !.called = TRUE,
                           !.adapter = IF q.op = "create" THEN q.provider
                                       ELSE refund_provider(q.payment[1])]
       IN  \E answer \in (IF q.op = "create" THEN CreateErrors ELSE RefundErrors) :
             /\ reqs' = [reqs EXCEPT ![r] = PayFail(qs, answer)]
             /\ audit_logs' = AuditInsert(audit_logs, r, "failure")
             /\ payments' =
                   [n \in PayIds |->
                      IF payments[n] # << >> /\ payments[n][1].id = q.payment_id
                      THEN <<[payments[n][1] EXCEPT !.status = "failed"]>>
                      ELSE payments[n]]
    /\ UNCHANGED <<gwVars, rlVars, supabase_client, idem, provider_configured>>

\* The try block from _get_adapter to the response: the adapter's
\* create_payment or refund_payment is called; on its answer the payment id is
\* minted, the row is saved (create) or updated (refund) when a database
\* client exists, and the response is built.  Without a key or a store client
\* the call ends here; an error is audited and re-raised.  An insert or
\* update that raises is logged inside _save_payment_to_db or
\* _update_payment_refund and the operation goes on; DbAnswers holds the
\* answers the database may give (TRUE: the write is done).
PayAdapterAs(r, DbAnswers, RefundAnswers) ==
    /\ reqs[r].pc = "adapter"
    /\ LET q == reqs[r]
           adapter == IF q.op = "create" THEN q.provider
                      ELSE refund_provider(q.payment[1])
           qa == [q EXCEPT !.adapter = adapter]
       IN  IF ~provider_configured
           THEN /\ reqs' = [reqs EXCEPT ![r] = PayFail(qa, "INVALID_PROVIDER")]
                /\ audit_logs' = AuditInsert(audit_logs, r, "failure")
                /\ UNCHANGED payments
           ELSE \E answer \in (IF q.op = "create" THEN AdapterAnswers("create")
                                ELSE ProviderRefundAnswers(q, RefundAnswers)) :
                \E db_ok \in (IF supabase_client
                                 /\ answer \notin CreateErrors \cup RefundErrors
                              THEN DbAnswers ELSE {TRUE}) :
             LET result == IF q.op = "create" THEN CreateResult(r, answer)
                           ELSE RefundResult(r, answer, q.amount, q.payment[1])
                 payment_id == IF q.op = "create" THEN PaymentId(r)
                               ELSE q.payment_id
                 response == IF q.op = "create"
                             THEN CreatePaymentResponse(payment_id, result,
                                                        q.amount, q.currency, now,
                                                        TraceId(r))
                             ELSE RefundPaymentResponse(q.payment[1], result, now,
                                                        TraceId(r))
                 qs == [qa EXCEPT !.called = TRUE,
                                  !.sent = IF q.op = "create"
                                           THEN <<CreateSent(adapter, q.amount,
                                                             q.currency)>>
                                           ELSE <<RefundSent(q.payment[1],
                                                             q.amount)>>]
                 q1 == [qs EXCEPT !.result = <<result>>,
                                  !.response = <<response>>,
                                  !.saved = IF ~supabase_client THEN "skipped"
                                            ELSE IF db_ok THEN "ok" ELSE "error"]
             IN  IF answer \in CreateErrors \cup RefundErrors
                 THEN /\ reqs' = [reqs EXCEPT ![r] = PayFail(qs, answer)]
                      /\ audit_logs' = AuditInsert(audit_logs, r, "failure")
                      /\ UNCHANGED payments
                 ELSE /\ payments' =
                            IF ~supabase_client \/ ~db_ok THEN payments
                            ELSE IF q.op = "create"
                            THEN [payments EXCEPT ![r] =
                                     <<PaymentRow(payment_id, q.provider, result,
                                                  q.amount, q.currency,
                                                  q.customer_id)>>]
                            ELSE RefundUpdate(payments, q.payment_id, result)
                      /\ IF q.idempotency_key # None /\ redis_client
                         THEN /\ reqs' = [reqs EXCEPT ![r] =
                                             [q1 EXCEPT !.pc = "cache_set"]]
                              /\ UNCHANGED audit_logs
                         ELSE /\ reqs' = [reqs EXCEPT ![r] = PayFinish(q1)]
                              /\ audit_logs' =
                                    AuditInsert(audit_logs, r, "success")
    /\ UNCHANGED <<gwVars, rlVars, supabase_client, idem, provider_configured>>

\* The adapter step with a provider that answers a refund with "refunded" or
\* with an error.
PayAdapterWith(r, DbAnswers) ==
    PayAdapterAs(r, DbAnswers, AdapterAnswers("refund"))

\* The adapter step with a database that does every write.
PayAdapter(r) == PayAdapterWith(r, {TRUE})

\* The adapter step with a database whose writes may raise.
PayAdapterStore(r) == PayAdapterWith(r, BOOLEAN)

OnCacheWriteError_raises(q) == Raised(q, "INTERNAL_ERROR")

\* The except clause of _set_cached_response: the error of the write is
\* logged and the operation goes on to its success audit and its return.
OnCacheWriteError(q) == PayFinish(q)

\* _set_cached_response: redis.set(cache_key, json.dumps(response), ex=TTL),
\* a write that raises is swallowed; then the success audit and the return.
PayCacheSet(r) ==
    /\ reqs[r].pc = "cache_set"
    /\ \E store_ok \in BOOLEAN :
         LET q == reqs[r]
             entry == [payload |-> json_dumps(q.response[1]),
                       deadline |-> entry_deadline(now)]
         IN  /\ idem' = IF store_ok
                        THEN [idem EXCEPT ![cache_key(q.idempotency_key)] = <<entry>>]
                        ELSE idem
             /\ reqs' = [reqs EXCEPT ![r] =
                   IF store_ok
                   THEN PayFinish([q EXCEPT !.cache_set = "ok", !.cached_at = now])
                   ELSE OnCacheWriteError([q EXCEPT !.cache_set = "error",
                                                   !.cached_at = now])]
             /\ audit_logs' = AuditInsert(audit_logs, r, "success")
    /\ UNCHANGED <<gwVars, rlVars, supabase_client, payments, provider_configured>>

\* What adapter.get_payment_status may answer: the provider's status of the
\* payment, or a typed error.
StatusAnswers == {"completed", "processing", "refunded"}

StatusErrors == {"PROVIDER_ERROR"}

PaymentStatusResponse(payment, status, trace_id) ==
    [id |-> payment.id,
     provider_transaction_id |-> payment.provider_transaction_id,
     provider |-> payment.provider, status |-> PaymentStatus(status),
     amount |-> payment.amount, currency |-> payment.currency,
     trace_id |-> trace_id, refund_id |-> payment.refund_id,
     refund_status |-> payment.refund_status,
     refund_amount |-> payment.refund_amount]

\* The route get_payment_status and the entry of check_payment_status: the
\* route hands the path parameter alone to the service, not the tenant of
\* the caller; there is no idempotency lookup and the payment is read next.
get_payment_status(r, caller, payment_id) ==
    /\ reqs[r].pc = "idle"
    /\ \A d \in ReqIds : d < r => reqs[d].pc # "idle"
    /\ reqs' = [reqs EXCEPT ![r] =
          [IdleReq EXCEPT !.op = "status", !.payment_id = payment_id,
                          !.began_at = now, !.pc = "lookup",
                          !.caller = caller]]
    /\ UNCHANGED <<gwVars, rlVars, supabase_client, idem, payments, audit_logs,
                   provider_configured>>

\* check_payment_status called by itself.
PayStatusBegin(r, payment_id) == get_payment_status(r, None, payment_id)

\* The update of check_payment_status: the rows whose id equals the path
\* parameter take the provider's status.
StatusUpdate(rows, payment_id, status) ==
    [n \in PayIds |->
        IF rows[n] # << >> /\ rows[n][1].id = payment_id
        THEN <<[rows[n][1] EXCEPT !.status = status]>>
        ELSE rows[n]]

\* The except clause of check_payment_status: the error of the sync is
\* logged and the status read from the database is returned.
on_sync_error(q, e) ==
    Returned([q EXCEPT !.sync = "error", !.raised = e,
                       !.response = <<PaymentStatusResponse(q.payment[1],
                                          q.payment[1].status, TraceId(q.trace))>>])

\* The try block of check_payment_status and the return: the adapter of the
\* row's provider is asked for the status; a status that differs from the
\* row's is written to the database and to the local copy of the row.  Any
\* error (no credentials, the provider's, the database's) is swallowed.
PayStatusSync(r) ==
    /\ reqs[r].pc = "sync"
    /\ LET q == [reqs[r] EXCEPT !.adapter = refund_provider(reqs[r].payment[1]),
                                !.trace = r]
           payment == q.payment[1]
       IN  IF ~provider_configured
           THEN /\ reqs' = [reqs EXCEPT ![r] = on_sync_error(q, "INVALID_PROVIDER")]
                /\ UNCHANGED payments
           ELSE \E answer \in StatusAnswers \cup StatusErrors :
                \E db_ok \in (IF answer \in StatusAnswers /\ answer # payment.status
                                 /\ supabase_client
                              THEN BOOLEAN ELSE {TRUE}) :
                  LET qc == [q EXCEPT !.called = TRUE,
                                      !.sent = <<[of |-> payment.provider_transaction_id]>>]
                  IN  IF answer \in StatusErrors
                      THEN /\ reqs' = [reqs EXCEPT ![r] = on_sync_error(qc, answer)]
                           /\ UNCHANGED payments
                      ELSE LET qr == [qc EXCEPT !.result =
                                         <<[status |-> PaymentStatus(answer)]>>]
                           IN  IF answer # payment.status /\ supabase_client
                               THEN IF db_ok
                                    THEN /\ payments' = StatusUpdate(payments,
                                                            q.payment_id, answer)
                                         /\ reqs' = [reqs EXCEPT ![r] =
                                               Returned([qr EXCEPT
                                                 !.sync = "ok", !.saved = "ok",
                                                 !.response =
                                                   <<PaymentStatusResponse(payment,
                                                        answer, TraceId(r))>>])]
                                    ELSE /\ reqs' = [reqs EXCEPT ![r] =
                                               on_sync_error(
                                                 [qr EXCEPT !.saved = "error"],
                                                 "DATABASE_ERROR")]
                                         /\ UNCHANGED payments
                               ELSE /\ reqs' = [reqs EXCEPT ![r] =
                                          Returned([qr EXCEPT
                                            !.sync = "ok",
                                            !.response =
                                              <<PaymentStatusResponse(payment,
                                                   payment.status, TraceId(r))>>])]
                                    /\ UNCHANGED payments
    /\ UNCHANGED <<gwVars, rlVars, supabase_client, idem, audit_logs,
                   provider_configured>>

\* Time passes between requests (a request is served within one reading of
\* the clock); the store drops the idempotency entries whose deadline is
\* reached.
PayTick ==
    /\ \A r \in ReqIds : ~ReqInFlight(r)
    /\ \E t \in PayTimePoints :
         /\ t > now
         /\ now' = t
         /\ idem' = [k \in CacheKeys |->
                        IF idem[k] # << >> /\ t >= idem[k][1].deadline
                        THEN << >> ELSE idem[k]]
    /\ UNCHANGED <<gwVars, redis_client, tier_limit, zset, ttl, calls, supabase_client,
                   payments, audit_logs, provider_configured, reqs>>

(***************************************************************************)
(* Authentication: app/auth.py; key management: app/api_keys/routes.py     *)
(***************************************************************************)
API_KEY_CACHE_TTL == 300

\* A request path, as the "/" separators and the text between them.
Slash == "/"

RootPath == <<Slash>>

HealthPath == <<Slash, "health">>

DocsPath == <<Slash, "docs">>

RedocPath == <<Slash, "redoc">>

OpenApiPath == <<Slash, "openapi.json">>

CustomersPath == <<Slash, "api/v1/customers">>

ApiKeysPath == <<Slash, "api/v1/api-keys">>

PaymentsPath == <<Slash, "api/v1/payments">>

BOOTSTRAP_ALLOWED_ROUTES == {<<"POST", ApiKeysPath>>}

PUBLIC_ROUTES ==
    {<<"GET", RootPath>>, <<"GET", HealthPath>>, <<"GET", DocsPath>>,
     <<"GET", RedocPath>>, <<"GET", OpenApiPath>>, <<"POST", CustomersPath>>}

AUTH_BYPASS_METHODS == {"OPTIONS"}

\* The request lines tried: public, protected and bootstrap routes, paths
\* with and without a trailing slash, a method in either case.
Routes ==
    {<<"GET", HealthPath>>, <<"GET", HealthPath \o <<Slash>>>>,
     <<"GET", PaymentsPath>>, <<"OPTIONS", PaymentsPath>>,
     <<"options", PaymentsPath>>, <<"GET", ApiKeysPath>>,
     <<"POST", ApiKeysPath>>, <<"POST", ApiKeysPath \o <<Slash>>>>}

\* str.upper() on the methods tried.
upper(method) == IF method = "options" THEN "OPTIONS" ELSE method

\* str.rstrip(ch): every trailing occurrence is removed.
RECURSIVE rstrip(_, _)
rstrip(path, ch) ==
    IF path # << >> /\ path[Len(path)] = ch
    THEN rstrip(SubSeq(path, 1, Len(path) - 1), ch)
    ELSE path

get_route_key(method, path) ==
    <<upper(method), IF path # RootPath THEN rstrip(path, Slash) ELSE path>>

is_public_route(method, path) ==
    \/ upper(method) \in AUTH_BYPASS_METHODS
    \/ get_route_key(method, path) \in PUBLIC_ROUTES

is_bootstrap_allowed_route_any(method, path) == TRUE

is_bootstrap_allowed_route(method, path) ==
    get_route_key(method, path) \in BOOTSTRAP_ALLOWED_ROUTES

AuthContext(customer_id, tier, api_key_id, is_bootstrap, is_static_key) ==
    [customer_id |-> customer_id, tier |-> tier, api_key_id |-> api_key_id,
     is_bootstrap |-> is_bootstrap, is_static_key |-> is_static_key]

\* The credentials of the deployment and of the tenants.
BootstrapKey == "boot_key"

StaticKey == "static_key"

UnknownKey == "unknown_key"

API_KEY_PREFIX == "pk_"

\* _generate_api_key(): a key never issued before; n counts the keys issued.
generate_api_key(n) == API_KEY_PREFIX \o ToString(n)

ApiKeyIds == {"key1"}

FirstKey == generate_api_key(1)

\* The configurations tried: the usual one, none at all, and two in which one
\* key value is configured or stored in more than one place.
SettingsTried ==
    {[bootstrap_api_key |-> BootstrapKey, allowed_api_keys |-> {StaticKey}],
     [bootstrap_api_key |-> None, allowed_api_keys |-> {}],
     [bootstrap_api_key |-> BootstrapKey,
      allowed_api_keys |-> {BootstrapKey, FirstKey}],
     [bootstrap_api_key |-> FirstKey, allowed_api_keys |-> {StaticKey}]}

UsualSettings ==
    [bootstrap_api_key |-> BootstrapKey, allowed_api_keys |-> {StaticKey}]

\* Tier names as the customers table may hold them: the five of TIER_LIMITS,
\* one in another case and one that TIER_LIMITS does not know.
TierNames == {"starter", "growth", "scale", "admin", "public", "Scale", "gold"}

\* The Authorization header: absent, or a scheme prefix and the rest.
NoHeader == << >>

Bearer(token) == <<"Bearer ", token>>

\* jwt.decode(token, options={"verify_signature": False}): the claims of a
\* well-formed token; a malformed one raises.
jwt_decode_any_text(token) == <<[sub |-> "userA", email |-> None]>>

jwt_decode(token) ==
    CASE token = "jwtA" -> <<[sub |-> "userA", email |-> None]>>
      [] token = "jwtNoSub" -> <<[sub |-> None, email |-> "a@x"]>>
      [] token = "jwtStranger" -> <<[sub |-> "userX", email |-> "x@x"]>>
      [] token = "jwtNewUser" -> <<[sub |-> "userN", email |-> "a@x"]>>
      [] OTHER -> << >>

UserOf(customer_id) == IF customer_id = "tA" THEN "userA" ELSE "userB"

EmailOf(customer_id) == IF customer_id = "tA" THEN "a@x" ELSE "b@x"

api_key_cache_key(api_key) == <<"api_key:", api_key>>

\* The credentials a request may present.
PresentedKeys ==
    {None, BootstrapKey, StaticKey, UnknownKey}
        \cup {generate_api_key(n) : n \in 1..MaxKeysIssued}

ApiKeyCacheKeys == {api_key_cache_key(k) : k \in PresentedKeys \ {None}}

\* json.dumps(data) and json.loads(cached) of the dictionary of strings that
\* is cached.
json_dumps_data(data) == <<"json", data>>

json_loads_data(text) == text[2]

\* The status code of each error class (app/errors.py).
StatusOf(code) ==
    CASE code = "MISSING_API_KEY" -> 401
      [] code = "INVALID_API_KEY" -> 401
      [] code = "BOOTSTRAP_KEY_NOT_ALLOWED" -> 403
      [] code = "FORBIDDEN" -> 403
      [] code = "NOT_FOUND" -> 404
      [] code = "RATE_LIMIT_EXCEEDED" -> 429
      [] OTHER -> 500

GwIds == 1..MaxGwConcurrent

MgmtIds == 1..MaxMgmtCalls

IdleGw ==
    [pc |-> "idle", method |-> None, path |-> << >>, x_api_key |-> None,
     authorization |-> NoHeader, ctx |-> << >>, error |-> None, via |-> None,
     consulted |-> << >>, lookup |-> None, data |-> << >>, revoked |-> {},
     call |-> 0,
     limit |-> 0, rate_info |-> << >>, status |-> 0, headers |-> {},
     retry_after |-> 0, handler_invoked |-> FALSE]

IdleMgmt ==
    [pc |-> "idle", action |-> None, api_key_id |-> None, old_key |-> None,
     error |-> None]

\* The position of a request inside authenticate_request.
Authenticating(g) == gw[g].pc \in {"cache_get", "cache_set"}

\* authenticate_request returns: the context is attached to the request.
Authed(q, ctx, via) ==
    [q EXCEPT !.pc = "authed", !.ctx = <<ctx>>, !.via = via]

\* authenticate_request raises.
AuthFailed(q, code) == [q EXCEPT !.pc = "authed", !.error = code]

\* The old keys of the revoke, rotate and delete calls that have returned.
CompletedRevocations ==
    {mgmt[m].old_key : m \in {i \in MgmtIds : mgmt[i].pc = "done"
                                               /\ mgmt[i].error = None}}

\* The customer _validate_clerk_token resolves a token to, and by which
\* column: the customer of the "sub" claim, else the customer of the "email"
\* claim.  No client, a token that does not decode, no "sub" claim, or a
\* query that raises, resolve to nobody; single() finding no row of the
\* user either raises or answers without data (no_row_raises), and only in
\* the second case is the email looked up.
clerk_customer(token, db_ok, no_row_raises) ==
    LET payload == jwt_decode(token)
        nobody == [found |-> {}, by |-> None]
    IN  IF ~supabase_client \/ ~db_ok \/ payload = << >> THEN nobody
        ELSE IF payload[1].sub = None THEN nobody
        ELSE LET by_user == {c \in DOMAIN customers :
                                customers[c].user_id = payload[1].sub}
                 by_email == {c \in DOMAIN customers :
                                 customers[c].email = payload[1].email}
             IN  IF Cardinality(by_user) = 1
                 THEN [found |-> by_user, by |-> "user_id"]
                 ELSE IF by_user # {} \/ no_row_raises THEN nobody
                 ELSE IF payload[1].email # None /\ Cardinality(by_email) = 1
                 THEN [found |-> by_email, by |-> "email"]
                 ELSE nobody

\* _validate_clerk_token's result: the id and tier of the customer, or None.
validate_clerk_token(token, db_ok, no_row_raises) ==
    LET resolved == clerk_customer(token, db_ok, no_row_raises)
    IN  IF resolved.found = {} THEN << >>
        ELSE LET c == CHOOSE c \in resolved.found : TRUE
             IN  <<[customer_id |-> c, tier |-> customers[c].tier]>>

\* The customers table after _validate_clerk_token: a customer found by
\* email takes the user id of the token.
clerk_link_user(token, db_ok, no_row_raises) ==
    LET resolved == clerk_customer(token, db_ok, no_row_raises)
    IN  IF resolved.by # "email" THEN customers
        ELSE [c \in DOMAIN customers |->
                IF c \in resolved.found
                THEN [customers[c] EXCEPT !.user_id = jwt_decode(token)[1].sub]
                ELSE customers[c]]

\* _validate_api_key_supabase: the one active row of that key, joined with
\* its customer; no client, no such row, or a failed query, all give None.
validate_api_key_supabase(api_key, db_ok) ==
    LET found == {id \in ApiKeyIds :
                     /\ api_keys[id] # << >>
                     /\ api_keys[id][1].key = api_key
                     /\ api_keys[id][1].is_active}
    IN  IF ~supabase_client \/ ~db_ok \/ Cardinality(found) # 1 THEN << >>
        ELSE LET id == CHOOSE id \in found : TRUE
                 row == api_keys[id][1]
             IN  <<[customer_id |-> row.customer_id,
                    tier |-> customers[row.customer_id].tier,
                    api_key_id |-> id]>>

TenantContext_as_static(data) ==
    AuthContext(data.customer_id, data.tier, data.api_key_id, FALSE, TRUE)

TenantContext(data) ==
    AuthContext(data.customer_id, data.tier, data.api_key_id, FALSE, FALSE)

AfterLookup_never_caches(q, validated, db_ok) ==
    LET q1 == [q EXCEPT !.consulted = Append(@, "store"),
                        !.lookup = IF ~supabase_client THEN "no client"
                                   ELSE IF ~db_ok THEN "raised"
                                   ELSE "answered"]
    IN  IF validated = << >> THEN AuthFailed(q1, "INVALID_API_KEY")
        ELSE Authed(q1, TenantContext(validated[1]), "store")

\* The lookup in the credential store and what follows it, up to the write
\* of the cache entry.
AfterLookup(q, validated, db_ok) ==
    LET q1 == [q EXCEPT !.consulted = Append(@, "store"),
                        !.lookup = IF ~supabase_client THEN "no client"
                                   ELSE IF ~db_ok THEN "raised"
                                   ELSE "answered"]
    IN  IF validated = << >> THEN AuthFailed(q1, "INVALID_API_KEY")
        ELSE IF redis_client
             THEN [q1 EXCEPT !.pc = "cache_set", !.data = validated]
             ELSE Authed(q1, TenantContext(validated[1]), "store")

tries_token_beside_key(x_api_key, authorization) ==
    authorization # NoHeader /\ authorization[1] = "Bearer "

\* `if not x_api_key and authorization and authorization.startswith("Bearer ")`
tries_token(x_api_key, authorization) ==
    /\ x_api_key = None
    /\ authorization # NoHeader
    /\ authorization[1] = "Bearer "

\* authenticate_request from its entry to its first awaited store operation.
AuthBegin(g, method, path, x_api_key, authorization) ==
    /\ ~Authenticating(g)
    /\ \E db_ok \in (IF supabase_client /\ ~is_public_route(method, path)
                      THEN BOOLEAN ELSE {TRUE}) :
       \E no_row_raises \in (IF supabase_client /\ ~is_public_route(method, path)
                                 /\ tries_token(x_api_key, authorization)
                              THEN BOOLEAN ELSE {TRUE}) :
         LET q0 == [IdleGw EXCEPT !.method = method, !.path = path,
                                  !.x_api_key = x_api_key,
                                  !.authorization = authorization,
                                  !.revoked = CompletedRevocations]
             with_token == tries_token(x_api_key, authorization)
             token_data == IF with_token
                           THEN validate_clerk_token(authorization[2], db_ok,
                                                     no_row_raises)
                           ELSE << >>
             q1 == IF with_token
                   THEN [q0 EXCEPT !.consulted = Append(@, "token")] ELSE q0
             q2 == [q1 EXCEPT !.consulted = Append(@, "bootstrap")]
             q3 == [q2 EXCEPT !.consulted = Append(@, "static")]
             q4 == [q3 EXCEPT !.consulted = Append(@, "cache")]
         IN  /\ customers' =
                  IF with_token /\ ~is_public_route(method, path)
                  THEN clerk_link_user(authorization[2], db_ok, no_row_raises)
                  ELSE customers
             /\ gw' = [gw EXCEPT ![g] =
               IF is_public_route(method, path)
               THEN Authed(q0, AuthContext(None, "public", None, FALSE, FALSE),
                           "public")
               ELSE IF token_data # << >>
               THEN Authed(q1, AuthContext(token_data[1].customer_id,
                                           token_data[1].tier, None, FALSE, FALSE),
                           "token")
               ELSE IF x_api_key = None
               THEN AuthFailed(q1, "MISSING_API_KEY")
               ELSE IF /\ settings.bootstrap_api_key # None
                       /\ x_api_key = settings.bootstrap_api_key
               THEN IF ~is_bootstrap_allowed_route(method, path)
                    THEN AuthFailed(q2, "BOOTSTRAP_KEY_NOT_ALLOWED")
                    ELSE Authed(q2, AuthContext(None, "admin", None, TRUE, FALSE),
                                "bootstrap")
               ELSE IF x_api_key \in settings.allowed_api_keys
               THEN Authed(q3, AuthContext(None, "admin", None, FALSE, TRUE),
                           "static")
               ELSE IF redis_client
               THEN [q4 EXCEPT !.pc = "cache_get"]
               ELSE AfterLookup(q4, validate_api_key_supabase(x_api_key, db_ok),
                                db_ok)]
    /\ UNCHANGED <<rlVars, payVars, settings, api_keys, key_cache, mgmt>>

\* redis.get(f"api_key:{api_key}") answers: a hit returns the cached context;
\* a miss, or an error, goes on to the credential store.
AuthCacheGet(g) ==
    /\ gw[g].pc = "cache_get"
    /\ \E store_ok \in BOOLEAN :
       \E db_ok \in (IF supabase_client THEN BOOLEAN ELSE {TRUE}) :
         LET entry == key_cache[api_key_cache_key(gw[g].x_api_key)]
             cached_data == IF store_ok /\ entry # << >>
                            THEN <<json_loads_data(entry[1].payload)>>
                            ELSE << >>
         IN  gw' = [gw EXCEPT ![g] =
               IF cached_data # << >>
               THEN Authed(gw[g], TenantContext(cached_data[1]), "cache")
               ELSE AfterLookup(gw[g],
                        validate_api_key_supabase(gw[g].x_api_key, db_ok), db_ok)]
    /\ UNCHANGED <<rlVars, payVars, settings, customers, api_keys, key_cache, mgmt>>

\* redis.set(cache_key, json.dumps(data), ex=API_KEY_CACHE_TTL) answers; an
\* error is logged and the request is authenticated all the same.
AuthCacheSet(g) ==
    /\ gw[g].pc = "cache_set"
    /\ \E store_ok \in BOOLEAN :
         key_cache' =
            IF store_ok
            THEN [key_cache EXCEPT ![api_key_cache_key(gw[g].x_api_key)] =
                    <<[payload |-> json_dumps_data(gw[g].data[1]),
                       deadline |-> now + API_KEY_CACHE_TTL]>>]
            ELSE key_cache
    /\ gw' = [gw EXCEPT ![g] = Authed(gw[g], TenantContext(gw[g].data[1]), "store")]
    /\ UNCHANGED <<rlVars, payVars, settings, customers, api_keys, mgmt>>

\* _can_access_api_key
can_access_api_key(auth_ctx, key_customer_id) ==
    \/ auth_ctx.tier = "admin"
    \/ auth_ctx.is_static_key
    \/ auth_ctx.customer_id = key_customer_id

MgmtActions == {"revoke", "rotate", "delete"}

MgmtRaised(q, code) == [q EXCEPT !.pc = "done", !.error = code]

\* update_api_key and delete_api_key from their entry to the awaited cache
\* invalidation: the row is read, the caller's right to it is checked, and
\* the row is updated or deleted.
MgmtBegin(m, action, api_key_id, auth_ctx) ==
    /\ mgmt[m].pc = "idle"
    /\ \A d \in MgmtIds : d < m => mgmt[d].pc # "idle"
    /\ action = "rotate" /\ api_keys[api_key_id] # << >>
          => api_keys[api_key_id][1].issued < MaxKeysIssued
    /\ \E db_ok \in (IF supabase_client THEN BOOLEAN ELSE {TRUE}) :
         LET q0 == [IdleMgmt EXCEPT !.action = action, !.api_key_id = api_key_id]
             row == api_keys[api_key_id]
         IN  IF ~supabase_client
             THEN /\ mgmt' = [mgmt EXCEPT ![m] = MgmtRaised(q0, "INTERNAL_ERROR")]
                  /\ UNCHANGED api_keys
             ELSE IF ~db_ok
             THEN /\ mgmt' = [mgmt EXCEPT ![m] = MgmtRaised(q0, "INTERNAL_ERROR")]
                  /\ UNCHANGED api_keys
             ELSE IF row = << >>
             THEN \* no row: .single() raises, or answers with no data
                  /\ \E code \in {"INTERNAL_ERROR", "NOT_FOUND"} :
                        mgmt' = [mgmt EXCEPT ![m] = MgmtRaised(q0, code)]
                  /\ UNCHANGED api_keys
             ELSE IF ~can_access_api_key(auth_ctx, row[1].customer_id)
             THEN /\ mgmt' = [mgmt EXCEPT ![m] = MgmtRaised(q0, "FORBIDDEN")]
                  /\ UNCHANGED api_keys
             ELSE /\ api_keys' = [api_keys EXCEPT ![api_key_id] =
                        CASE action = "revoke" ->
                                <<[row[1] EXCEPT !.is_active = FALSE]>>
                          [] action = "rotate" ->
                                <<[row[1] EXCEPT
                                      !.key = generate_api_key(row[1].issued + 1),
                                      !.issued = @ + 1,
                                      !.is_active = TRUE]>>
                          [] OTHER -> << >>]
                  /\ mgmt' = [mgmt EXCEPT ![m] =
                        IF redis_client
                        THEN [q0 EXCEPT !.pc = "invalidate",
                                        !.old_key = row[1].key]
                        ELSE [q0 EXCEPT !.pc = "done", !.old_key = row[1].key]]
    /\ UNCHANGED <<rlVars, payVars, settings, customers, key_cache, gw>>

\* redis.delete(f"api_key:{old_key}") answers; an error is logged and the
\* call returns its success response all the same.
MgmtInvalidate(m) ==
    /\ mgmt[m].pc = "invalidate"
    /\ \E store_ok \in BOOLEAN :
         key_cache' =
            IF store_ok
            THEN [key_cache EXCEPT ![api_key_cache_key(mgmt[m].old_key)] = << >>]
            ELSE key_cache
    /\ mgmt' = [mgmt EXCEPT ![m] = [@ EXCEPT !.pc = "done"]]
    /\ UNCHANGED <<rlVars, payVars, settings, customers, api_keys, gw>>


\* Time passes while no request is being authenticated; the store drops the
\* api_key entries whose deadline is reached.
AuthTick ==
    /\ \A g \in GwIds : ~Authenticating(g)
    /\ \A m \in MgmtIds : mgmt[m].pc # "invalidate"
    /\ now < API_KEY_CACHE_TTL
    /\ \E t \in {API_KEY_CACHE_TTL - 1, API_KEY_CACHE_TTL} :
         /\ t > now
         /\ now' = t
         /\ key_cache' = [k \in ApiKeyCacheKeys |->
                            IF key_cache[k] # << >> /\ t >= key_cache[k][1].deadline
                            THEN << >> ELSE key_cache[k]]
    /\ UNCHANGED <<redis_client, tier_limit, zset, ttl, calls, payVars,
                   settings, customers, api_keys, gw, mgmt>>

(***************************************************************************)
(* The middleware: combined_middleware of app/main.py and                  *)
(* rate_limit_middleware of app/rate_limiting.py                           *)
(***************************************************************************)
TIER_LIMITS ==
    [starter |-> 100, growth |-> 500, scale |-> 2000, admin |-> 10000,
     public |-> 60]

\* dict.get(key, default)
dict_get(d, key, default) == IF key \in DOMAIN d THEN d[key] ELSE default

\* str.lower() on the tier names tried.
lower(tier) == IF tier = "Scale" THEN "scale" ELSE tier

get_tier_limit_public_default(auth_ctx) ==
    IF auth_ctx = << >> THEN dict_get(TIER_LIMITS, "public", 60)
    ELSE dict_get(TIER_LIMITS, lower(auth_ctx[1].tier), TIER_LIMITS["public"])

\* _get_tier_limit: auth_ctx is << >> for None.
get_tier_limit(auth_ctx) ==
    IF auth_ctx = << >> THEN dict_get(TIER_LIMITS, "public", 60)
    ELSE dict_get(TIER_LIMITS, lower(auth_ctx[1].tier), TIER_LIMITS["starter"])

ClientIp == "10.0.0.1"

\* _get_identifier
get_identifier(client_ip, auth_ctx) ==
    IF auth_ctx # << >> /\ auth_ctx[1].customer_id # None
    THEN "customer:" \o auth_ctx[1].customer_id
    ELSE "ip:" \o client_ip

\* is_rate_limit_exempt
is_rate_limit_exempt(method, path) ==
    get_route_key(method, path) \in PUBLIC_ROUTES

RateLimitHeaders ==
    {"X-RateLimit-Limit", "X-RateLimit-Remaining", "X-RateLimit-Reset"}

\* The statuses a route handler may answer with.
HandlerStatuses == {200, 404}

\* A request is inside combined_middleware.
GwInFlight(g) == gw[g].pc \notin {"idle", "done"}

goes_on_always(q) == TRUE

\* combined_middleware reaches rate_limit_middleware only when
\* authenticate_request has raised nothing.
goes_on(q) == q.error = None

calls_next_always(rate_info) == TRUE

\* rate_limit_middleware calls the handler only below the limit.
calls_next(rate_info) == ~rate_info.is_exceeded

\* The except clause of combined_middleware: the error response is returned
\* at once.
GwAuthError(g) ==
    /\ gw[g].pc = "authed"
    /\ gw[g].error # None
    /\ gw' = [gw EXCEPT ![g] =
                [@ EXCEPT !.pc = "done", !.status = StatusOf(gw[g].error),
                          !.headers = {"X-Trace-Id", "Access-Control-Allow-Origin",
                                       "Access-Control-Allow-Credentials"}]]
    /\ UNCHANGED <<rlVars, payVars, settings, customers, api_keys, key_cache, mgmt>>

\* rate_limit_middleware from its entry: an exempt route goes to the handler,
\* any other enters check_rate_limit.
GwRateLimit(g) ==
    /\ gw[g].pc = "authed"
    /\ goes_on(gw[g])
    /\ IF is_rate_limit_exempt(gw[g].method, gw[g].path)
       THEN /\ gw' = [gw EXCEPT ![g] =
                        [@ EXCEPT !.pc = "handler", !.handler_invoked = TRUE]]
            /\ UNCHANGED calls
       ELSE \E c \in CallIds :
              /\ calls[c].pc = "idle"
              /\ \A d \in CallIds : d < c => calls[d].pc # "idle"
              /\ LET identifier == get_identifier(ClientIp, gw[g].ctx)
                     limit == get_tier_limit(gw[g].ctx)
                 IN  /\ calls' = [calls EXCEPT ![c] = RLEnter(identifier, limit)]
                     /\ gw' = [gw EXCEPT ![g] =
                                 [@ EXCEPT !.pc = "ratelimit", !.call = c,
                                           !.limit = limit]]
    /\ UNCHANGED <<now, redis_client, tier_limit, zset, ttl, payVars,
                   settings, customers, api_keys, key_cache, mgmt>>

\* rate_info.reset_at - int(time.time()), with the clock read while the 429
\* response is built.
retry_after(rate_info) == rate_info.reset_at - now

\* check_rate_limit has returned: over the limit the 429 response is built
\* and returned, otherwise the handler is called.
GwRateAnswer(g) ==
    /\ gw[g].pc = "ratelimit"
    /\ calls[gw[g].call].pc = "done"
    /\ LET rate_info == calls[gw[g].call]
       IN  gw' = [gw EXCEPT ![g] =
             IF ~calls_next(rate_info)
             THEN [@ EXCEPT !.pc = "done", !.status = 429,
                            !.rate_info = <<rate_info>>,
                            !.retry_after = retry_after(rate_info),
                            !.headers = RateLimitHeaders
                                          \cup {"Retry-After", "X-Trace-Id"}]
             ELSE [@ EXCEPT !.pc = "handler", !.handler_invoked = TRUE,
                            !.rate_info = <<rate_info>>]]
    /\ calls' = [calls EXCEPT ![gw[g].call] = IdleCall]
    /\ UNCHANGED <<now, redis_client, tier_limit, zset, ttl, payVars,
                   settings, customers, api_keys, key_cache, mgmt>>

\* call_next has returned the handler's response; a request that went through
\* check_rate_limit gets the rate-limit headers.
GwHandler(g) ==
    /\ gw[g].pc = "handler"
    /\ \E status \in HandlerStatuses :
         gw' = [gw EXCEPT ![g] =
                  [@ EXCEPT !.pc = "done", !.status = status,
                            !.headers = (IF gw[g].rate_info # << >>
                                         THEN RateLimitHeaders ELSE {})
                                           \cup {"X-Trace-Id"}]]
    /\ UNCHANGED <<rlVars, payVars, settings, customers, api_keys, key_cache, mgmt>>

\* The tables and the store before any request of the middleware.
GwFresh ==
    /\ customers = [c \in Tenants |->
                      [tier |-> IF c = "tA" THEN "growth" ELSE "starter",
                       user_id |-> UserOf(c), email |-> EmailOf(c)]]
    /\ api_keys = [id \in ApiKeyIds |->
                      <<[key |-> FirstKey, customer_id |-> "tA",
                         is_active |-> TRUE, issued |-> 1]>>]
    /\ key_cache = [k \in ApiKeyCacheKeys |-> << >>]
    /\ gw = [g \in GwIds |-> IdleGw]
    /\ mgmt = [m \in MgmtIds |-> IdleMgmt]

\* The state after construction, but for the limits and the clients held.
Fresh ==
    /\ now = 0
    /\ zset = [k \in RateLimitKeys |-> {}]
    /\ ttl = [k \in RateLimitKeys |-> NoExpiry]
    /\ calls = [c \in CallIds |-> IdleCall]
    /\ idem = [k \in CacheKeys |-> << >>]
    /\ payments = [n \in PayIds |-> IF n = 0 /\ supabase_client
                                    THEN <<SeedPayment>> ELSE << >>]
    /\ audit_logs = {}
    /\ reqs = [r \in ReqIds |-> IdleReq]

\* The rate limiter's start: any limit, with or without a store client.
Init ==
    /\ redis_client \in BOOLEAN
    /\ tier_limit \in [Identifiers -> Limits]
    /\ supabase_client = TRUE
    /\ provider_configured = TRUE
    /\ settings = UsualSettings
    /\ Fresh
    /\ GwFresh

\* The payment service's start: with or without a store client, a database
\* client and provider credentials.
InitPay ==
    /\ redis_client \in BOOLEAN
    /\ supabase_client \in BOOLEAN
    /\ provider_configured \in BOOLEAN
    /\ tier_limit = [i \in Identifiers |-> 1]
    /\ settings = UsualSettings
    /\ Fresh
    /\ GwFresh

\* Requests that may overlap: each call starts whenever it likes.
RLStartConcurrent(c) ==
    /\ c <= MaxConcurrent
    /\ \E i \in Identifiers : RLStart(c, i, tier_limit[i])

\* Requests issued one after another: a call starts when none is in flight.
RLStartSequential(c) ==
    /\ c <= MaxCalls
    /\ \A d \in CallIds : ~InFlight(d)
    /\ \E i \in Identifiers : RLStart(c, i, tier_limit[i])

RLSteps(c) ==
    \/ RLPipeline(c)
    \/ RLZrange(c)
    \/ RLZadd(c)
    \/ RLExpire(c)
    \/ RLStoreFails(c)

NextRL == Tick \/ \E c \in CallIds : (RLStartConcurrent(c) \/ RLSteps(c))

NextRLSeq == Tick \/ \E c \in CallIds : (RLStartSequential(c) \/ RLSteps(c))

\* Calls of the accessor between the requests.
RLStartAccessor(c) ==
    /\ c <= MaxCalls
    /\ \A d \in CallIds : ~InFlight(d)
    /\ \E i \in Identifiers : get_rate_limit_info(c, i, tier_limit[i])

NextRLInfo ==
    \/ Tick
    \/ \E c \in CallIds :
          (RLStartSequential(c) \/ RLStartAccessor(c) \/ RLSteps(c))

\* The rate limiter under requests and calls of the accessor, one after
\* another.
SpecRLInfo == Init /\ [][NextRLInfo]_vars

\* The rate limiter under concurrent requests.
SpecRL == Init /\ [][NextRL]_vars

\* The rate limiter under requests issued one after another.
SpecRLSeq == Init /\ [][NextRLSeq]_vars

\* The arguments a route hands to the service: the caller's tenant, the
\* Idempotency-Key header, and the body (and path parameter) of the operation.
PayArrives(r) ==
    \E op \in Ops, customer_id \in Tenants, k \in IdemKeys :
        \E amount \in (IF op = "create" THEN Amounts ELSE RefundAmounts) :
            \E payment_id \in (IF op = "create" THEN {NoPaymentId} ELSE RefundTargets) :
                PayBegin(r, op, customer_id, k, amount, payment_id)

\* Requests that may overlap.
PayBeginConcurrent(r) ==
    /\ r <= MaxPayConcurrent
    /\ PayArrives(r)

\* Requests issued one after another.
PayBeginSequential(r) ==
    /\ r <= MaxPayRequests
    /\ \A d \in ReqIds : ~ReqInFlight(d)
    /\ PayArrives(r)

PaySteps(r) ==
    \/ PayLookup(r)
    \/ PayAdapter(r)
    \/ PayCacheSet(r)

NextPay == PayTick \/ \E r \in ReqIds : (PayBeginConcurrent(r) \/ PaySteps(r))

NextPaySeq == PayTick \/ \E r \in ReqIds : (PayBeginSequential(r) \/ PaySteps(r))

\* The payment service under concurrent requests.
SpecPay == InitPay /\ [][NextPay]_vars

\* The payment service under requests issued one after another.
SpecPaySeq == InitPay /\ [][NextPaySeq]_vars

\* One tenant's requests, issued one after another.
PayBeginOwn(r) ==
    /\ r <= MaxPayRequests
    /\ \A d \in ReqIds : ~ReqInFlight(d)
    /\ \E op \in Ops, k \in IdemKeys :
         \E amount \in (IF op = "create" THEN Amounts ELSE RefundAmounts) :
            \E payment_id \in (IF op = "create" THEN {NoPaymentId}
                                ELSE RefundTargets) :
                PayBegin(r, op, "tA", k, amount, payment_id)

PayStepsStore(r) ==
    \/ PayLookup(r)
    \/ PayAdapterStore(r)
    \/ PayCacheSet(r)

NextPayStore == PayTick \/ \E r \in ReqIds : (PayBeginOwn(r) \/ PayStepsStore(r))

\* The payment service, one tenant's requests issued one after another,
\* with a database whose writes may raise.
SpecPayStore == InitPay /\ [][NextPayStore]_vars

\* The amounts of minor units tried on the wire, each with the text of its
\* hundredth part.
TwoDecimals ==
    (1 :> "0.01") @@ (5 :> "0.05") @@ (29 :> "0.29") @@ (100 :> "1.00")
        @@ (150 :> "1.50")

WireAmounts == DOMAIN TwoDecimals

\* One create of any amount, currency and provider.
PayBeginWire(r) ==
    /\ r = 1
    /\ \E amount \in WireAmounts, currency \in Currencies, provider \in Providers :
         \E k \in IdemKeys :
            PayBeginWith(r, "create", "tA", k, amount, NoPaymentId, provider,
                         currency)

NextWire == \E r \in ReqIds : (PayBeginWire(r) \/ PayAdapter(r) \/ PayCacheSet(r))

\* create_payment over the amounts, currencies and providers.
SpecWire == InitPay /\ [][NextWire]_vars

\* The path parameters of refunds and status checks: the internal id or the
\* provider's id of the payment of row 0, or the id of the payment the first
\* request creates.
LedgerTargets == {PaymentId(0), ProviderTxnId(0), PaymentId(1)}

\* A full refund, a partial one, and one of more than the payment.
LedgerRefundAmounts == {NoAmount, 29, 150}

LedgerRefundAnswers == {"refunded", "processing", "failed"} \cup RefundErrors

\* The payment service's start with a payment of either provider, in a
\* two-decimal or a zero-decimal currency, in row 0.
InitLedger ==
    /\ redis_client \in BOOLEAN
    /\ supabase_client \in BOOLEAN
    /\ provider_configured \in BOOLEAN
    /\ tier_limit = [i \in Identifiers |-> 1]
    /\ settings = UsualSettings
    /\ now = 0
    /\ zset = [k \in RateLimitKeys |-> {}]
    /\ ttl = [k \in RateLimitKeys |-> NoExpiry]
    /\ calls = [c \in CallIds |-> IdleCall]
    /\ idem = [k \in CacheKeys |-> << >>]
    /\ \E provider \in Providers, currency \in {"USD", "JPY"} :
         payments = [n \in PayIds |->
                        IF n = 0 /\ supabase_client
                        THEN <<[SeedPayment EXCEPT !.provider = provider,
                                                   !.currency = currency]>>
                        ELSE << >>]
    /\ audit_logs = {}
    /\ reqs = [r \in ReqIds |-> IdleReq]
    /\ GwFresh

\* One tenant's creates, refunds and status checks, issued one after
\* another.
PayBeginLedger(r) ==
    /\ r <= MaxPayRequests
    /\ \A d \in ReqIds : ~ReqInFlight(d)
    /\ \/ \E k \in IdemKeys, amount \in Amounts :
            PayBegin(r, "create", "tA", k, amount, NoPaymentId)
       \/ \E k \in IdemKeys, amount \in LedgerRefundAmounts,
             payment_id \in LedgerTargets :
            PayBegin(r, "refund", "tA", k, amount, payment_id)
       \/ \E payment_id \in LedgerTargets : PayStatusBegin(r, payment_id)

PayStepsLedger(r) ==
    \/ PayLookup(r)
    \/ PayAdapterAs(r, {TRUE}, LedgerRefundAnswers)
    \/ PayCacheSet(r)
    \/ PayStatusSync(r)

NextLedger == \E r \in ReqIds : (PayBeginLedger(r) \/ PayStepsLedger(r))

\* Creates, refunds and status checks of one tenant, one after another.
SpecLedger == InitLedger /\ [][NextLedger]_vars

\* Refunds and status checks of the payment of row 0, which is tenant tA's,
\* by either tenant, one after another.
PayBeginTenants(r) ==
    /\ r <= MaxPayRequests
    /\ \A d \in ReqIds : ~ReqInFlight(d)
    /\ \E caller \in Tenants, payment_id \in {PaymentId(0), ProviderTxnId(0)} :
         \/ \E k \in IdemKeys, amount \in LedgerRefundAmounts :
              PayBegin(r, "refund", caller, k, amount, payment_id)
         \/ get_payment_status(r, caller, payment_id)

NextTenants == \E r \in ReqIds : (PayBeginTenants(r) \/ PayStepsLedger(r))

\* The payments of one tenant under the calls of two.
SpecTenants == InitLedger /\ [][NextTenants]_vars

\* The service's start for authentication and key management: any of the
\* configurations, with or without a store client and a database client.
InitAuth ==
    /\ redis_client \in BOOLEAN
    /\ supabase_client \in BOOLEAN
    /\ provider_configured = TRUE
    /\ tier_limit = [i \in Identifiers |-> 1]
    /\ settings \in SettingsTried
    /\ Fresh
    /\ GwFresh

Authorizations == {NoHeader, Bearer("jwtA")}

AuthArrives(g) ==
    \E route \in Routes :
        \E x_api_key \in PresentedKeys, authorization \in Authorizations :
            AuthBegin(g, route[1], route[2], x_api_key, authorization)

\* Requests issued one after another.
AuthBeginSequential(g) ==
    /\ g = 1
    /\ \A d \in GwIds : ~Authenticating(d)
    /\ AuthArrives(g)

\* Requests of one tenant's credential that may overlap each other and the
\* key-management calls.
AuthBeginConcurrent(g) ==
    \E x_api_key \in {generate_api_key(n) : n \in 1..MaxKeysIssued} :
        AuthBegin(g, "GET", PaymentsPath, x_api_key, NoHeader)

\* The callers of key management: the owner, another tenant, a static key.
MgmtCallers ==
    {AuthContext("tA", "growth", "key1", FALSE, FALSE),
     AuthContext("tB", "starter", None, FALSE, FALSE),
     AuthContext(None, "admin", None, FALSE, TRUE)}

MgmtArrives(m) ==
    \E action \in MgmtActions, id \in ApiKeyIds, auth_ctx \in MgmtCallers :
        MgmtBegin(m, action, id, auth_ctx)

AuthSteps(g) == AuthCacheGet(g) \/ AuthCacheSet(g)

\* The usual configuration, with or without a store client and a database
\* client.
InitAuthUsual ==
    /\ InitAuth
    /\ settings = UsualSettings

NextAuth ==
    \/ AuthTick
    \/ \E g \in GwIds : (AuthBeginConcurrent(g) \/ AuthSteps(g))
    \/ \E m \in MgmtIds : (MgmtArrives(m) \/ MgmtInvalidate(m))

NextAuthSeq == \E g \in GwIds : (AuthBeginSequential(g) \/ AuthSteps(g))

\* Authentication and key management under concurrent calls.
SpecAuth == InitAuthUsual /\ [][NextAuth]_vars

\* Authentication of requests issued one after another, under any of the
\* configurations.
SpecAuthSeq == InitAuth /\ [][NextAuthSeq]_vars

\* The bearer tokens tried: of a known user, without a subject, of a user
\* and an email nobody has, of a new user with a known email, and one that
\* does not decode.
SessionTokens == {"jwtA", "jwtNoSub", "jwtStranger", "jwtNewUser", "junk"}

SessionAuthorizations ==
    {NoHeader, <<"Basic ", "jwtA">>} \cup {Bearer(token) : token \in SessionTokens}

\* Requests with or without a key and with any of the Authorization headers,
\* one after another.
AuthBeginSession(g) ==
    /\ g = 1
    /\ \A d \in GwIds : ~Authenticating(d)
    /\ \E route \in Routes :
         \E x_api_key \in {None, FirstKey, UnknownKey, BootstrapKey, StaticKey},
            authorization \in SessionAuthorizations :
             AuthBegin(g, route[1], route[2], x_api_key, authorization)

NextSession == \E g \in GwIds : (AuthBeginSession(g) \/ AuthSteps(g))

\* Authentication by session token or key, in the usual configuration.
SpecSession == InitAuthUsual /\ [][NextSession]_vars

\* The middleware's start: the clock at the end of a first window, in which
\* the client address has sent no request, or one in every second; the
\* tenant in any tier.
InitGw ==
    /\ now = RATE_LIMIT_WINDOW
    /\ redis_client \in BOOLEAN
    /\ supabase_client = TRUE
    /\ provider_configured = TRUE
    /\ tier_limit = [i \in Identifiers |-> 1]
    /\ settings = UsualSettings
    /\ \E sent \in {{}, 1..RATE_LIMIT_WINDOW} :
         /\ zset = [k \in RateLimitKeys |->
                      IF k = get_rate_limit_key(get_identifier(ClientIp, << >>))
                         /\ redis_client
                      THEN sent ELSE {}]
         /\ ttl = [k \in RateLimitKeys |->
                      IF zset[k] # {} THEN now + RATE_LIMIT_KEY_TTL ELSE NoExpiry]
    /\ calls = [c \in CallIds |-> IdleCall]
    /\ idem = [k \in CacheKeys |-> << >>]
    /\ payments = [n \in PayIds |-> IF n = 0 THEN <<SeedPayment>> ELSE << >>]
    /\ audit_logs = {}
    /\ reqs = [r \in ReqIds |-> IdleReq]
    /\ \E tier \in TierNames :
         customers = [c \in Tenants |->
                        [tier |-> IF c = "tA" THEN tier ELSE "starter",
                         user_id |-> UserOf(c), email |-> EmailOf(c)]]
    /\ api_keys = [id \in ApiKeyIds |->
                      <<[key |-> FirstKey, customer_id |-> "tA",
                         is_active |-> TRUE, issued |-> 1]>>]
    /\ key_cache = [k \in ApiKeyCacheKeys |-> << >>]
    /\ gw = [g \in GwIds |-> IdleGw]
    /\ mgmt = [m \in MgmtIds |-> IdleMgmt]

\* The requests the middleware receives, one after another.
GwArrives(g) ==
    /\ g = 1
    /\ \A d \in GwIds : ~GwInFlight(d)
    /\ \E route \in Routes :
         \E x_api_key \in {None, FirstKey, BootstrapKey} :
             AuthBegin(g, route[1], route[2], x_api_key, NoHeader)

GwSteps(g) ==
    \/ AuthCacheGet(g)
    \/ AuthCacheSet(g)
    \/ GwAuthError(g)
    \/ GwRateLimit(g)
    \/ GwRateAnswer(g)
    \/ GwHandler(g)

NextGw ==
    \/ \E g \in GwIds : (GwArrives(g) \/ GwSteps(g))
    \/ \E c \in CallIds : RLSteps(c)

\* The middleware under requests issued one after another.
SpecGw == InitGw /\ [][NextGw]_vars

\* Requests that may overlap: the tenant's and the client address's to the
\* payments route, and one to an exempt route.
GwArrivesPair(g) ==
    /\ gw[g].pc = "idle"
    /\ \/ AuthBegin(g, "GET", PaymentsPath, FirstKey, NoHeader)
       \/ AuthBegin(g, "OPTIONS", PaymentsPath, None, NoHeader)
       \/ AuthBegin(g, "GET", HealthPath, None, NoHeader)

NextGwPair ==
    \/ \E g \in GwIds : (GwArrivesPair(g) \/ GwSteps(g))
    \/ \E c \in CallIds : RLSteps(c)

\* The middleware under requests of two identifiers that overlap.
SpecGwPair == InitGw /\ [][NextGwPair]_vars

\* Requests to the payments route, of the tenant and of the client address,
\* one after another.
GwArrivesClock(g) ==
    /\ g = 1
    /\ \A d \in GwIds : ~GwInFlight(d)
    /\ \E method \in {"GET", "OPTIONS"}, x_api_key \in {None, FirstKey} :
         AuthBegin(g, method, PaymentsPath, x_api_key, NoHeader)

NextGwClock ==
    \/ Tick
    \/ \E g \in GwIds : (GwArrivesClock(g) \/ GwSteps(g))
    \/ \E c \in CallIds : RLSteps(c)

\* The middleware while the clock advances, between the requests and between
\* the steps of one request.
SpecGwClock == InitGw /\ [][NextGwClock]_vars

(***************************************************************************)
(* Claims about the idempotency of create_payment and refund_payment.      *)
(***************************************************************************)
ReqDone(r) == reqs[r].pc = "done"

\* Two calls of the same operation by the same tenant with the same key.
SameCall(i, j) ==
    /\ reqs[i].op = reqs[j].op
    /\ reqs[i].customer_id = reqs[j].customer_id
    /\ reqs[i].idempotency_key = reqs[j].idempotency_key

SameBody(i, j) ==
    /\ reqs[i].amount = reqs[j].amount
    /\ reqs[i].payment_id = reqs[j].payment_id

\* The provider carried out the call's create or refund.
ProviderActed(r) == reqs[r].called /\ reqs[r].result # << >>

\* The request that built a cached payload or a response (its trace id).
BuiltBy(payload) == payload["trace_id"][2]

\* C1: for any idempotency key, whatever the interleaving of the create (or
\* refund) requests of a tenant that present it while the store is reachable
\* and the key's entry has not expired, the provider carries out the operation
\* for at most one of them.
C1_AtMostOneProviderCall ==
    \A i, j \in ReqIds :
        ( /\ i # j
          /\ redis_client
          /\ ReqDone(i) /\ ReqDone(j)
          /\ SameCall(i, j)
          /\ reqs[i].cache_get # "error" /\ reqs[j].cache_get # "error"
          /\ reqs[i].cache_set # "error" /\ reqs[j].cache_set # "error"
          /\ reqs[j].began_at - reqs[i].began_at < IDEMPOTENCY_TTL_SECONDS
          /\ reqs[i].began_at - reqs[j].began_at < IDEMPOTENCY_TTL_SECONDS )
        => ~(ProviderActed(i) /\ ProviderActed(j))

\* C2: when a create (or a refund) that succeeded and cached its response is
\* followed, within IDEMPOTENCY_TTL_SECONDS and with the store readable by
\* every call of the key in between, by a call of the same operation with the
\* same key and body, the second call returns the first one's response and
\* the adapter is called once, by the first.
C2_SequentialReplay ==
    \A i, j \in ReqIds :
        ( /\ i < j
          /\ ReqDone(i) /\ ReqDone(j)
          /\ SameCall(i, j) /\ SameBody(i, j)
          /\ reqs[i].outcome = "ok"
          /\ reqs[i].cache_set = "ok"
          /\ reqs[j].began_at - reqs[i].cached_at < IDEMPOTENCY_TTL_SECONDS
          /\ \A m \in ReqIds :
                (i < m /\ m <= j /\ reqs[m].idempotency_key = reqs[i].idempotency_key)
                    => reqs[m].cache_get # "error" )
        => /\ reqs[j].cache_get = "hit"
           /\ reqs[j].outcome = "ok"
           /\ reqs[j].response = reqs[i].response
           /\ reqs[i].called
           /\ ~reqs[j].called

\* C2 witness: a refund replayed one second before its entry expires.
C2_Witness ==
    \E i, j \in ReqIds :
        /\ i < j
        /\ ReqDone(i) /\ ReqDone(j)
        /\ SameCall(i, j) /\ SameBody(i, j)
        /\ reqs[i].op = "refund"
        /\ reqs[i].cache_set = "ok"
        /\ reqs[i].cached_at = 0
        /\ reqs[j].began_at = IDEMPOTENCY_TTL_SECONDS - 1
        /\ reqs[j].response = reqs[i].response
        /\ ~reqs[j].called

\* C3: an attempt that fails stores nothing under its key, so that an entry
\* always comes from an attempt that returned a response; a later attempt with
\* the key of attempts that all failed misses the cache and calls the provider
\* again; and the error the adapter raised leaves the service unchanged.
C3_FailureNotCached ==
    /\ \A r \in ReqIds :
          /\ reqs[r].outcome = "error" => reqs[r].cache_set = "skipped"
          /\ reqs[r].raised # None => reqs[r].error = reqs[r].raised
    /\ \A k \in IdemKeys :
          idem[cache_key(k)] # << >>
              => reqs[BuiltBy(idem[cache_key(k)][1].payload)].outcome = "ok"
    /\ \A j \in ReqIds :
          ( /\ ReqDone(j)
            /\ provider_configured
            /\ \A i \in ReqIds :
                  (i < j /\ reqs[i].idempotency_key = reqs[j].idempotency_key)
                      => reqs[i].outcome = "error" )
          => /\ reqs[j].cache_get # "hit"
             /\ (reqs[j].op = "create" \/ reqs[j].payment # << >>)
                    => reqs[j].called

\* C3 witness: a create the provider refused, then the same create again,
\* which the provider carries out and whose response is cached.
C3_Witness ==
    \E i, j \in ReqIds :
        /\ i < j
        /\ ReqDone(i) /\ ReqDone(j)
        /\ SameCall(i, j) /\ SameBody(i, j)
        /\ reqs[i].called
        /\ reqs[i].outcome = "error"
        /\ reqs[i].error = "PAYMENT_FAILED"
        /\ reqs[j].cache_get = "miss"
        /\ ProviderActed(j)
        /\ reqs[j].cache_set = "ok"

\* C4: a request is answered from the cache only with a response that a
\* request of the same tenant built.
C4_TenantScoped ==
    \A j \in ReqIds :
        (ReqDone(j) /\ reqs[j].cache_get = "hit" /\ reqs[j].outcome = "ok")
            => reqs[BuiltBy(reqs[j].response[1])].customer_id = reqs[j].customer_id

\* C5: a refund never reads, and never fails on, an entry that a create
\* cached under the same key, and a create never one that a refund cached.
C5_OperationScoped ==
    \A j \in ReqIds :
        reqs[j].cached # << >>
            => /\ reqs[BuiltBy(reqs[j].cached[1])].op = reqs[j].op
               /\ reqs[j].error # "VALIDATION_ERROR"


(***************************************************************************)
(* Claims about the rate limiter.                                          *)
(***************************************************************************)
\* A call the store answered (neither the absent-store nor the except path).
Served(c) == calls[c].pc = "done" /\ calls[c].path = "ok"

Admitted(c) == Served(c) /\ ~calls[c].is_exceeded

\* The calls on the same identifier that started before call j (calls start
\* in the order of their ids).
Prior(j) == {i \in CallIds : i < j /\ calls[i].key = calls[j].key}

\* C6: for a fixed identifier and limit L, the n-th of the requests issued one
\* after another and answered inside one 60-second window (the same clock
\* second included) is answered remaining = L - n and not exceeded while
\* n <= L, and exceeded with remaining 0 once n > L.
C6_SequentialCountdown ==
    \A j \in CallIds :
        ( /\ Served(j)
          /\ \A i \in Prior(j) :
                /\ Served(i)
                /\ calls[i].limit = calls[j].limit
                /\ now - calls[i].now < RATE_LIMIT_WINDOW )
        => LET n == Cardinality(Prior(j)) + 1
               L == calls[j].limit
           IN  IF n <= L
               THEN ~calls[j].is_exceeded /\ calls[j].remaining = L - n
               ELSE calls[j].is_exceeded /\ calls[j].remaining = 0

\* C7: under any interleaving of the calls on one identifier, the requests
\* admitted with timestamps inside one 60-second window number at most the
\* limit.
C7_NoQuotaBypass ==
    \A i \in Identifiers : \A t \in TimePoints :
        Cardinality({c \in CallIds :
                        /\ Admitted(c)
                        /\ calls[c].key = get_rate_limit_key(i)
                        /\ t <= calls[c].now
                        /\ calls[c].now < t + RATE_LIMIT_WINDOW})
            <= tier_limit[i]

\* C8: a request that the store answers, issued when at least window_seconds
\* have passed since every earlier request of its identifier, is answered
\* remaining = limit - 1 and not exceeded, whatever the earlier requests were
\* answered.
C8_FullResetAfterWindow ==
    \A j \in CallIds :
        ( /\ Served(j)
          /\ \A i \in Prior(j) :
                calls[j].now - calls[i].now >= RATE_LIMIT_WINDOW )
        => /\ ~calls[j].is_exceeded
           /\ calls[j].remaining = calls[j].limit - 1

\* C8 witness: a request answered after the window of an earlier request that
\* had been told "exceeded".
C8_Witness ==
    \E j \in CallIds :
        /\ Served(j)
        /\ \A i \in Prior(j) : calls[j].now - calls[i].now >= RATE_LIMIT_WINDOW
        /\ \E i \in Prior(j) : Served(i) /\ calls[i].is_exceeded
        /\ calls[j].remaining = calls[j].limit - 1

\* C9: check_rate_limit never raises; with the store absent or an operation
\* failing at any step it answers not exceeded, remaining = limit and
\* reset_at = now + 60 (now as read on entry).
C9_FailOpen ==
    \A c \in CallIds :
        /\ calls[c].pc # "raised"
        /\ (calls[c].pc = "done" /\ calls[c].path \in {"noredis", "failopen"})
            => /\ ~calls[c].is_exceeded
               /\ calls[c].remaining = calls[c].limit
               /\ calls[c].reset_at = calls[c].now + RATE_LIMIT_WINDOW

\* C9 witness: a call whose store failed after the count was read and the
\* timestamp inserted, at a time when the window was not empty.
C9_Witness ==
    \E c \in CallIds :
        /\ calls[c].pc = "done"
        /\ calls[c].path = "failopen"
        /\ calls[c].did_zadd
        /\ calls[c].current_count > 0
        /\ calls[c].remaining = calls[c].limit

\* C10: a call that found the limit exceeded neither inserts a timestamp nor
\* refreshes the key's expiry; only calls that found it not exceeded insert.
C10_ExceededNeverInserts ==
    \A c \in CallIds :
        /\ (calls[c].current_count >= calls[c].limit /\ calls[c].pc # "idle")
            => ~calls[c].did_zadd /\ ~calls[c].did_expire
        /\ (calls[c].pc = "done" /\ calls[c].is_exceeded)
            => ~calls[c].did_zadd /\ ~calls[c].did_expire
        /\ calls[c].pc \in {"zadd", "expire"} => ~calls[c].is_exceeded

\* C10 witness: a call answered "exceeded" while the set holds a timestamp
\* another call inserted.
C10_Witness ==
    \E c \in CallIds :
        /\ Served(c)
        /\ calls[c].is_exceeded
        /\ ~calls[c].did_zadd
        /\ \E d \in CallIds : d # c /\ calls[d].did_zadd /\ calls[d].key = calls[c].key

(***************************************************************************)
(* Claims about authentication, key management and the middleware.         *)
(***************************************************************************)
\* The request line is one the authenticator lets through without a
\* credential: an allow-listed public route, or the OPTIONS method.
Bypasses(g) ==
    \/ get_route_key(gw[g].method, gw[g].path) \in PUBLIC_ROUTES
    \/ upper(gw[g].method) = "OPTIONS"

\* A request that authenticate_request has answered, or that is further on.
AuthAnswered(g) == gw[g].pc \in {"authed", "ratelimit", "handler", "done"}

\* C11: a request on an allow-listed public route, or an OPTIONS request on
\* any path, is never refused for want of a credential, never enters the
\* rate-limit check and never carries an X-RateLimit-* header.
C11_PublicNeverRateLimited ==
    \A g \in GwIds :
        (AuthAnswered(g) /\ Bypasses(g))
            => /\ gw[g].error = None
               /\ gw[g].pc # "ratelimit"
               /\ gw[g].rate_info = << >>
               /\ gw[g].headers \cap RateLimitHeaders = {}

\* The request presents the configured bootstrap credential as its API key.
PresentsBootstrap(g) ==
    /\ settings.bootstrap_api_key # None
    /\ gw[g].x_api_key = settings.bootstrap_api_key

OnBootstrapRoute(g) ==
    get_route_key(gw[g].method, gw[g].path) = <<"POST", ApiKeysPath>>

\* What the claim C12 requires of a request that presents the bootstrap
\* credential.
BootstrapAnswer(g) ==
    IF OnBootstrapRoute(g)
    THEN /\ gw[g].error = None
         /\ gw[g].ctx = <<AuthContext(None, "admin", None, TRUE, FALSE)>>
    ELSE /\ gw[g].error = "BOOTSTRAP_KEY_NOT_ALLOWED"
         /\ StatusOf(gw[g].error) = 403
         /\ gw[g].ctx = << >>

\* C12 as stated: the bootstrap credential presented on any (method, path)
\* other than POST /api/v1/api-keys fails with BootstrapKeyNotAllowed (403)
\* and yields no AuthContext; on that route it yields tier admin, no tenant
\* and is_bootstrap.
C12_BootstrapAnyRoute ==
    \A g \in GwIds :
        (AuthAnswered(g) /\ PresentsBootstrap(g)) => BootstrapAnswer(g)

\* C12, amended: the same, for every (method, path) that is not let through
\* without a credential (a public route, or the OPTIONS method, is answered
\* with the public context before any credential is looked at).
C12_BootstrapScoped ==
    \A g \in GwIds :
        (AuthAnswered(g) /\ PresentsBootstrap(g) /\ ~Bypasses(g))
            => BootstrapAnswer(g)

\* C12 witness: the bootstrap credential, which is also configured as a
\* static admin key, is refused on a protected route.
C12_Witness ==
    \E g \in GwIds :
        /\ AuthAnswered(g)
        /\ PresentsBootstrap(g)
        /\ gw[g].x_api_key \in settings.allowed_api_keys
        /\ ~Bypasses(g)
        /\ ~OnBootstrapRoute(g)
        /\ gw[g].error = "BOOTSTRAP_KEY_NOT_ALLOWED"

\* The order in which authenticate_request looks a presented key up.
KeySteps == <<"bootstrap", "static", "cache", "store">>

IsPrefix(s, u) == Len(s) <= Len(u) /\ s = SubSeq(u, 1, Len(s))

\* C13: on a route that is not let through without a credential, a presented
\* API key is resolved by the first match of: bootstrap credential, static
\* admin keys, shared-cache entry, credential store.  The steps are consulted
\* in that order and none after the one that matched; a bearer token sent
\* along is never looked at.
C13_FirstMatchWins ==
    \A g \in GwIds :
        (AuthAnswered(g) /\ ~Bypasses(g) /\ gw[g].x_api_key # None)
            => LET q == gw[g]
                   n == Len(q.consulted)
               IN  /\ n >= 1
                   /\ IsPrefix(q.consulted, KeySteps)
                   /\ q.via # "token"
                   /\ q.error = None => /\ q.via = q.consulted[n]
                                        /\ q.ctx # << >>
                   /\ q.error # None => q.ctx = << >>
                   /\ PresentsBootstrap(g)
                        => /\ n = 1
                           /\ q.error = None => q.ctx[1].is_bootstrap
                   /\ (~PresentsBootstrap(g)
                       /\ q.x_api_key \in settings.allowed_api_keys)
                        => /\ n = 2
                           /\ q.error = None
                           /\ q.ctx = <<AuthContext(None, "admin", None,
                                                    FALSE, TRUE)>>
                   /\ (~PresentsBootstrap(g)
                       /\ q.x_api_key \notin settings.allowed_api_keys)
                        => /\ n >= 3
                           /\ q.error = None
                                => /\ ~q.ctx[1].is_bootstrap
                                   /\ ~q.ctx[1].is_static_key
                                   /\ q.ctx[1].customer_id # None
                   /\ n = 4 => q.error \in {None, "INVALID_API_KEY"}
                   /\ q.via = "cache"
                        => LET entry == key_cache[api_key_cache_key(q.x_api_key)]
                           IN  /\ n = 3
                               /\ entry # << >>
                               /\ q.ctx = <<TenantContext(
                                              json_loads_data(entry[1].payload))>>
                   /\ q.via = "store"
                        => /\ n = 4
                           /\ q.ctx = <<TenantContext(
                                 validate_api_key_supabase(q.x_api_key, TRUE)[1])>>

\* C13 witness: a tenant's active key that is also configured as a static
\* admin key, presented with a valid bearer token, is answered as a static
\* key; neither the cache, the credential store nor the token is consulted.
C13_Witness ==
    \E g \in GwIds :
        /\ AuthAnswered(g)
        /\ ~Bypasses(g)
        /\ gw[g].x_api_key = FirstKey
        /\ gw[g].authorization = Bearer("jwtA")
        /\ supabase_client
        /\ validate_api_key_supabase(FirstKey, TRUE) # << >>
        /\ validate_clerk_token("jwtA", TRUE, TRUE) # << >>
        /\ gw[g].via = "static"
        /\ gw[g].consulted = <<"bootstrap", "static">>

\* C14: when a tenant's key that no earlier step matched reaches the
\* credential store and the store cannot be asked (no client, or the lookup
\* raises), authentication fails with an internal-error kind of its own, and
\* never with INVALID_API_KEY.
C14_StoreDownIsInternalError ==
    \A g \in GwIds :
        ( /\ AuthAnswered(g)
          /\ gw[g].lookup \in {"no client", "raised"}
          /\ \E id \in ApiKeyIds : /\ api_keys[id] # << >>
                                   /\ api_keys[id][1].key = gw[g].x_api_key
                                   /\ api_keys[id][1].is_active )
            => /\ gw[g].ctx = << >>
               /\ gw[g].error \notin {None, "INVALID_API_KEY"}

\* C15: a request that arrives after a revoke, rotate or delete call has
\* returned, and presents the key that call retired, is not authenticated.
C15_RevokedKeyRefused ==
    \A g \in GwIds :
        (AuthAnswered(g) /\ gw[g].x_api_key \in gw[g].revoked)
            => gw[g].ctx = << >>

\* The route is on the allow-list that is exempt from rate limiting.
ExemptRoute(g) == get_route_key(gw[g].method, gw[g].path) \in PUBLIC_ROUTES

\* check_rate_limit has answered the request with "exceeded".
Exceeded(g) == gw[g].rate_info # << >> /\ gw[g].rate_info[1].is_exceeded

\* C16: the handler is invoked only after authenticate_request has returned
\* a context and, on a route that is not exempt from rate limiting, after
\* check_rate_limit has answered "not exceeded"; the rate-limit check is
\* entered only after authentication has succeeded; a request whose
\* authentication raised, or whose limit is exceeded, is answered without
\* the handler having been invoked.
C16_HandlerGated ==
    \A g \in GwIds :
        /\ gw[g].handler_invoked
             => /\ gw[g].error = None
                /\ gw[g].ctx # << >>
                /\ ExemptRoute(g) \/ (gw[g].rate_info # << >> /\ ~Exceeded(g))
        /\ (gw[g].pc = "ratelimit" \/ gw[g].rate_info # << >>)
             => /\ gw[g].error = None
                /\ gw[g].ctx # << >>
        /\ gw[g].pc \in {"cache_get", "cache_set", "authed"}
             => /\ ~gw[g].handler_invoked
                /\ gw[g].rate_info = << >>
        /\ (gw[g].pc = "done" /\ (gw[g].error # None \/ Exceeded(g)))
             => ~gw[g].handler_invoked

\* C16 witness: an authenticated request answered 429 without the handler
\* having been invoked.
C16_Witness ==
    \E g \in GwIds :
        /\ gw[g].pc = "done"
        /\ gw[g].ctx # << >>
        /\ Exceeded(g)
        /\ gw[g].status = 429
        /\ ~gw[g].handler_invoked

\* C17: every response to a request on a route that is not exempt carries
\* X-RateLimit-Limit, X-RateLimit-Remaining and X-RateLimit-Reset.
C17_HeadersOnEveryResponse ==
    \A g \in GwIds :
        (gw[g].pc = "done" /\ ~ExemptRoute(g))
            => RateLimitHeaders \subseteq gw[g].headers

\* The rate-limit windows and the calls of check_rate_limit.
Windows == <<zset, ttl, calls>>

\* C18: a request whose authentication fails is answered with that error,
\* 401 MISSING_API_KEY or INVALID_API_KEY, or 403, and never with 429; no
\* step of authentication and no answer to a failed authentication changes
\* a rate-limit window or enters check_rate_limit.
C18_AuthFailureConsumesNothing ==
    /\ [](\A g \in GwIds :
            (gw[g].pc = "done" /\ gw[g].error # None)
                => /\ gw[g].error \in {"MISSING_API_KEY", "INVALID_API_KEY",
                                       "BOOTSTRAP_KEY_NOT_ALLOWED"}
                   /\ gw[g].status = (IF gw[g].error = "BOOTSTRAP_KEY_NOT_ALLOWED"
                                      THEN 403 ELSE 401)
                   /\ ~ExemptRoute(g)
                   /\ gw[g].rate_info = << >>
                   /\ gw[g].call = 0)
    /\ [][ (\E g \in GwIds :
              /\ gw'[g] # gw[g]
              /\ \/ gw'[g].error # None
                 \/ gw'[g].pc \in {"cache_get", "cache_set", "authed"})
           => Windows' = Windows ]_vars

\* C18 witness: a request without a credential is answered 401 while the
\* window of its client address is full.
C18_Witness ==
    \E g \in GwIds :
        /\ gw[g].pc = "done"
        /\ gw[g].error = "MISSING_API_KEY"
        /\ gw[g].status = 401
        /\ Cardinality(zset[get_rate_limit_key("ip:" \o ClientIp)])
              >= TIER_LIMITS["public"]

\* The limit of a tier name, the name taken in lower case.
LimitOfTier(tier) ==
    CASE tier = "starter" -> 100
      [] tier = "growth" -> 500
      [] tier \in {"scale", "Scale"} -> 2000
      [] tier = "admin" -> 10000
      [] tier = "public" -> 60
      [] OTHER -> 100

\* C19: the limit check_rate_limit is called with, and the limit its answer
\* reports, is the one of the context's tier: starter 100, growth 500,
\* scale 2000, admin 10000, public 60, and 100 for a tier name that is none
\* of these; without a context the limit is 60.
C19_LimitByTier ==
    /\ get_tier_limit(<< >>) = 60
    /\ \A g \in GwIds :
         /\ gw[g].pc = "ratelimit"
              => /\ gw[g].limit = LimitOfTier(gw[g].ctx[1].tier)
                 /\ calls[gw[g].call].limit = gw[g].limit
         /\ gw[g].rate_info # << >>
              => gw[g].rate_info[1].limit = LimitOfTier(gw[g].ctx[1].tier)

\* C19 witness: a tenant whose tier name is not a known one is answered
\* under the limit 100.
C19_Witness ==
    \E g \in GwIds :
        /\ gw[g].pc = "done"
        /\ gw[g].ctx # << >>
        /\ gw[g].ctx[1].tier = "gold"
        /\ gw[g].rate_info # << >>
        /\ gw[g].rate_info[1].limit = 100

(***************************************************************************)
(* Claims about the payment record.                                        *)
(***************************************************************************)
\* C20: when the provider has answered a create with success and the insert
\* of the payment row raises, create_payment returns its success response,
\* holding the provider's transaction id, and raises nothing; when the
\* provider has answered a refund with success and the update of the row
\* raises, refund_payment returns its success response likewise.
C20_PersistFailureSwallowed ==
    \A r \in ReqIds :
        (ReqDone(r) /\ ProviderActed(r) /\ reqs[r].saved = "error")
            => /\ reqs[r].outcome = "ok"
               /\ reqs[r].error = None
               /\ reqs[r].raised = None
               /\ reqs[r].response # << >>
               /\ reqs[r].op = "create"
                    => /\ reqs[r].response[1].provider_transaction_id
                            = ProviderTxnId(r)
                       /\ payments[r] = << >>
               /\ reqs[r].op = "refund"
                    => reqs[r].response[1].refund_id = RefundId(r)

\* C20 witness: a refund whose row update raised after the provider had
\* refunded: the call returned its response and the row still says
\* "completed".
C20_Witness ==
    \E r \in ReqIds :
        /\ ReqDone(r)
        /\ reqs[r].op = "refund"
        /\ ProviderActed(r)
        /\ reqs[r].saved = "error"
        /\ reqs[r].outcome = "ok"
        /\ reqs[r].payment[1].status = "completed"
        /\ \E n \in PayIds : /\ payments[n] # << >>
                             /\ payments[n][1].id = reqs[r].payment[1].id
                             /\ payments[n][1].status = "completed"

(***************************************************************************)
(* Claims about the audit trail, refunds and the status check.             *)
(***************************************************************************)
\* C21: every create_payment or refund_payment call that has ended without
\* being answered from the idempotency cache has made exactly one audit
\* entry, a success entry when it returned a response and a failure entry
\* when it raised (a refund whose payment is not found included); a call
\* answered from the cache has made none.
C21_OneAuditPerAttempt ==
    \A r \in ReqIds :
        ReqDone(r) =>
            IF reqs[r].cache_get = "hit"
            THEN reqs[r].audit = None
            ELSE /\ reqs[r].outcome = "ok" => reqs[r].audit = "success"
                 /\ reqs[r].outcome = "error" => reqs[r].audit = "failure"

(***************************************************************************)
(* Claims about the window of the rate limiter.                            *)
(***************************************************************************)
\* C30: the pipeline of a check at time now removes exactly the stored
\* timestamps strictly less than window_start = now - RATE_LIMIT_WINDOW and
\* counts the others: a timestamp equal to window_start stays in the set and
\* is counted in current_count.
C30_StrictWindowStart ==
    [][\A c \in CallIds :
          (calls[c].pc = "pipeline" /\ calls'[c].pc = "zrange")
              => LET k == calls[c].key
                     window_start == calls[c].now - RATE_LIMIT_WINDOW
                     survivors == {s \in zset[k] : s >= window_start}
                 IN  /\ zset'[k] = survivors
                     /\ calls'[c].current_count = Cardinality(survivors)]_vars

(***************************************************************************)
(* Claims about the life of an idempotency entry.                          *)
(***************************************************************************)
\* C29: the value stored under an idempotency key is written at most once
\* within its TTL: when a call writes its response under a key that holds an
\* unexpired entry built by a call of the same operation, tenant and key, the
\* entry keeps the response it held (so that every caller of the key observes
\* the same payment id).
C29_WrittenOnceWithinTtl ==
    [][\A r \in ReqIds :
          (reqs[r].pc = "cache_set" /\ reqs'[r].cache_set = "ok")
              => LET k == cache_key(reqs[r].idempotency_key)
                 IN  ( /\ idem[k] # << >>
                       /\ now < idem[k][1].deadline
                       /\ SameCall(BuiltBy(idem[k][1].payload), r)
                       /\ SameBody(BuiltBy(idem[k][1].payload), r) )
                     => idem'[k][1].payload = idem[k][1].payload]_vars

\* C28: a read of the idempotency key that raises is treated as a miss: the
\* call is not answered from the cache and goes on to its attempt, calling
\* the provider (whenever the provider is configured and, for a refund, the
\* payment is found); a write of the idempotency record that raises is
\* swallowed: the call returns the response it built, raises nothing and is
\* audited as a success.
C28_CacheFailuresSwallowed ==
    \A r \in ReqIds :
        /\ reqs[r].cache_get = "error"
              => /\ reqs[r].cached = << >>
                 /\ reqs[r].pc # "idle"
                 /\ ( /\ ReqDone(r)
                      /\ provider_configured
                      /\ reqs[r].op = "refund" => reqs[r].payment # << >> )
                    => reqs[r].called
        /\ reqs[r].cache_set = "error"
              => /\ ReqDone(r)
                 /\ ProviderActed(r)
                 /\ reqs[r].outcome = "ok"
                 /\ reqs[r].error = None
                 /\ reqs[r].raised = None
                 /\ reqs[r].response # << >>
                 /\ BuiltBy(reqs[r].response[1]) = r
                 /\ reqs[r].audit = "success"

\* C28 witness: a create whose response was cached, then the same create
\* whose read of the key raised; that second call asked the provider again,
\* its write of the key raised too, and it returned its own response.
C28_Witness ==
    \E i, j \in ReqIds :
        /\ i < j
        /\ ReqDone(i) /\ ReqDone(j)
        /\ SameCall(i, j) /\ SameBody(i, j)
        /\ reqs[i].op = "create"
        /\ reqs[i].cache_set = "ok"
        /\ reqs[j].cache_get = "error"
        /\ ProviderActed(j)
        /\ reqs[j].cache_set = "error"
        /\ reqs[j].outcome = "ok"
        /\ idem[cache_key(reqs[i].idempotency_key)] # << >>
        /\ BuiltBy(idem[cache_key(reqs[i].idempotency_key)][1].payload) = i

(***************************************************************************)
(* Claims about the amounts put on the wire.                               *)
(***************************************************************************)
\* The text of the amount a create put on the wire.
SentText(sent) ==
    IF "value" \in DOMAIN sent THEN sent.value ELSE ToString(sent.amount)

CreateSentTo(r) ==
    /\ reqs[r].op = "create"
    /\ reqs[r].called
    /\ reqs[r].sent # << >>

RowsById(r, id) ==
    {n \in PayIds : n < r /\ payments[n] # << >> /\ payments[n][1].id = id}

RowsByTxn(r, id) ==
    {n \in PayIds : /\ n < r
                    /\ payments[n] # << >>
                    /\ payments[n][1].provider_transaction_id = id}

\* A refund that missed the idempotency cache and has read the table.
RefundLookedUp(r) ==
    /\ reqs[r].op = "refund"
    /\ reqs[r].pc \notin {"idle", "lookup"}
    /\ reqs[r].cache_get # "hit"

\* C22: refund_payment reads the payment by internal id and, when no row has
\* that id, by the provider's transaction id; when neither names a row it
\* fails with PAYMENT_NOT_FOUND, having called no provider and written no
\* cache entry; otherwise the refund is sent, for the row's provider
\* transaction id, to the adapter of the provider stored on the row.
C22_RefundLookupAndProvider ==
    \A r \in ReqIds :
        RefundLookedUp(r)
            => LET q == reqs[r]
                   byId == RowsById(r, q.payment_id)
                   byTxn == RowsByTxn(r, q.payment_id)
               IN  /\ (byId \cup byTxn = {})
                        => /\ ReqDone(r)
                           /\ q.error = "PAYMENT_NOT_FOUND"
                           /\ q.payment = << >>
                           /\ ~q.called
                           /\ q.adapter = None
                           /\ q.sent = << >>
                           /\ q.cache_set = "skipped"
                   /\ (byId # {})
                        => /\ q.payment # << >>
                           /\ q.payment[1].id = q.payment_id
                   /\ (byId = {} /\ byTxn # {})
                        => /\ q.payment # << >>
                           /\ q.payment[1].provider_transaction_id = q.payment_id
                   /\ q.called
                        => /\ q.payment # << >>
                           /\ \E n \in byId \cup byTxn :
                                 /\ q.adapter = payments[n][1].provider
                                 /\ q.sent[1].of
                                       = payments[n][1].provider_transaction_id

\* C22 witness: a refund named by the provider's transaction id of a PayPal
\* payment, sent to the PayPal adapter, after a refund of an id that names no
\* row.
C22_Witness ==
    \E i, j \in ReqIds :
        /\ i < j
        /\ RefundLookedUp(i) /\ ReqDone(i)
        /\ reqs[i].payment_id = PaymentId(1)
        /\ reqs[i].error = "PAYMENT_NOT_FOUND"
        /\ RefundLookedUp(j) /\ ReqDone(j)
        /\ reqs[j].payment_id = ProviderTxnId(0)
        /\ reqs[j].called
        /\ reqs[j].adapter = "paypal"
        /\ reqs[j].outcome = "ok"

\* The last request issued so far.
LatestRequest(r) == \A d \in ReqIds : d > r => reqs[d].pc = "idle"

\* C23: when refund_payment has returned its response (the update of the
\* database having raised nothing), the row of the refunded payment holds the
\* refund_id, the status (as refund_status) and the amount of the adapter's
\* result, and its status is "refunded" when the adapter reported
\* "refunded" and "processing" otherwise, a failed refund included.
C23_RecordTakesRefund ==
    \A r \in ReqIds :
        ( /\ RefundLookedUp(r)
          /\ ReqDone(r)
          /\ LatestRequest(r)
          /\ reqs[r].outcome = "ok"
          /\ reqs[r].saved = "ok" )
        => \E n \in PayIds :
              /\ payments[n] # << >>
              /\ payments[n][1].id = reqs[r].payment[1].id
              /\ LET row == payments[n][1]
                     result == reqs[r].result[1]
                 IN  /\ row.refund_id = result.refund_id
                     /\ row.refund_status = result.status[2]
                     /\ row.refund_amount = result.amount
                     /\ row.status = IF result.status = PaymentStatus("refunded")
                                     THEN "refunded" ELSE "processing"

\* C24: over any sequence of creates, refunds and status checks, a row of
\* the payments table takes the status "refunded" only from the status
\* "completed", never from "pending", "processing" or "failed".
C24_RefundedOnlyFromCompleted ==
    [][\A n \in PayIds :
          ( /\ payments[n] # << >>
            /\ payments'[n] # << >>
            /\ payments[n][1].status # "refunded"
            /\ payments'[n][1].status = "refunded" )
          => payments[n][1].status = "completed"]_vars

C26_StatusSync ==
    [][\A r \in ReqIds :
          ( /\ reqs[r].op = "status"
            /\ reqs[r].pc = "sync"
            /\ reqs'[r].pc # "sync" )
          => LET q == reqs'[r]
                 payment == reqs[r].payment[1]
             IN  /\ q.outcome = "ok"
                 /\ q.sync = "error"
                      => /\ payments' = payments
                         /\ q.response[1].status = PaymentStatus(payment.status)
                 /\ ( /\ q.sync = "ok"
                      /\ q.result[1].status # PaymentStatus(payment.status) )
                      => /\ q.response[1].status = q.result[1].status
                         /\ \E n \in PayIds :
                              /\ payments'[n] # << >>
                              /\ payments'[n][1].id = payment.id
                              /\ PaymentStatus(payments'[n][1].status)
                                    = q.result[1].status]_vars

(***************************************************************************)
(* Claims about session tokens and the contexts of authenticate_request.   *)
(***************************************************************************)

\* A request on a non-public route that presents no API key but a bearer
\* token.
TokenOnly(q) ==
    /\ q.pc = "authed"
    /\ ~is_public_route(q.method, q.path)
    /\ tries_token(q.x_api_key, q.authorization)

\* The tokens tried that name no customer: the one that does not decode,
\* the one without a subject, and the one of a subject and an email that no
\* customer has.
NamesNobody(token) == token \in {"junk", "jwtNoSub", "jwtStranger"}

\* C31: on a non-public route with no API key, a bearer token that is not
\* resolved to a tenant makes authenticate_request raise MISSING_API_KEY
\* (401) and attach no context, never INVALID_API_KEY; a token that names
\* nobody, or any token without a database client, is never resolved.
C31_UnresolvedTokenIsMissingKey ==
    [][\A g \in GwIds :
          (gw'[g] # gw[g] /\ TokenOnly(gw'[g]))
          => LET q == gw'[g]
             IN  /\ q.via # "token"
                    => /\ q.error = "MISSING_API_KEY"
                       /\ StatusOf(q.error) = 401
                       /\ q.ctx = << >>
                 /\ (NamesNobody(q.authorization[2]) \/ ~supabase_client)
                    => q.via # "token"]_vars

\* C31 witness: with the database at hand, a request without a key whose
\* token is of a user and an email that no customer has was refused with
\* MISSING_API_KEY.
C31_Witness ==
    \E g \in GwIds :
        /\ TokenOnly(gw[g])
        /\ supabase_client
        /\ gw[g].authorization = Bearer("jwtStranger")
        /\ gw[g].error = "MISSING_API_KEY"
        /\ gw[g].ctx = << >>

\* C32: a hit of the api_key cache yields the context of the cached tenant,
\* tier and key id without a query of the credential store; a miss, or a read
\* that fails, goes on to the store; a key the store does not know is
\* refused with INVALID_API_KEY and no cache entry is written; a key the
\* store knows is written to the cache, to expire API_KEY_CACHE_TTL seconds
\* later, before the context is returned, and a write that fails is ignored.
C32_KeyCache ==
    [][\A g \in GwIds :
          LET q == gw'[g]
              k == api_key_cache_key(gw[g].x_api_key)
          IN  /\ (gw[g].pc = "cache_get" /\ q.pc = "authed" /\ q.via = "cache")
                 => /\ key_cache[k] # << >>
                    /\ LET data == key_cache[k][1].payload[2]
                       IN  q.ctx = <<[customer_id |-> data.customer_id,
                                      tier |-> data.tier,
                                      api_key_id |-> data.api_key_id,
                                      is_bootstrap |-> FALSE,
                                      is_static_key |-> FALSE]>>
                    /\ q.consulted = gw[g].consulted
                    /\ q.lookup = None
                    /\ key_cache' = key_cache
              /\ (gw[g].pc = "cache_get" /\ q.via # "cache")
                 => /\ q.consulted = Append(gw[g].consulted, "store")
                    /\ key_cache' = key_cache
                    /\ q.pc = "authed" => q.error = "INVALID_API_KEY"
              /\ (q # gw[g] /\ q.pc = "authed" /\ q.error = "INVALID_API_KEY")
                 => /\ key_cache' = key_cache
                    /\ q.ctx = << >>
              /\ (q # gw[g] /\ q.pc = "authed" /\ q.via = "store" /\ redis_client)
                 => gw[g].pc = "cache_set"
              /\ (gw[g].pc = "cache_set" /\ q.pc # "cache_set")
                 => /\ q.pc = "authed" /\ q.via = "store" /\ q.error = None
                    /\ q.ctx = <<[customer_id |-> gw[g].data[1].customer_id,
                                  tier |-> gw[g].data[1].tier,
                                  api_key_id |-> gw[g].data[1].api_key_id,
                                  is_bootstrap |-> FALSE,
                                  is_static_key |-> FALSE]>>
                    /\ \A other \in ApiKeyCacheKeys \ {k} :
                          key_cache'[other] = key_cache[other]
                    /\ \/ key_cache'[k] = key_cache[k]
                       \/ /\ key_cache'[k] # << >>
                          /\ key_cache'[k][1].payload[2] = gw[g].data[1]
                          /\ key_cache'[k][1].deadline = now + 300]_vars

\* C32 witness: the tenant's key was answered from the cache, from the entry
\* that an earlier request had written after the store knew the key.
C32_Witness ==
    \E g \in GwIds :
        /\ gw[g].pc = "authed"
        /\ gw[g].x_api_key = FirstKey
        /\ gw[g].via = "cache"
        /\ gw[g].ctx # << >>
        /\ gw[g].ctx[1].customer_id = "tA"
        /\ gw[g].ctx[1].api_key_id = "key1"
        /\ "store" \notin {gw[g].consulted[i] : i \in DOMAIN gw[g].consulted}
        /\ key_cache[api_key_cache_key(FirstKey)] # << >>
        /\ key_cache[api_key_cache_key(FirstKey)][1].deadline = now + 300

(***************************************************************************)
(* Claims about the RateLimitInfo of check_rate_limit.                     *)
(***************************************************************************)

\* A call that returned with the store working throughout.
Answered(c) == calls[c].pc = "done" /\ calls[c].path = "ok"

\* C33: the reset_at of a call that the store answered is now + 60 when the
\* call counted no timestamp after its purge, and otherwise 60 more than a
\* timestamp that survived the purge (one after the call's window start),
\* whatever other callers did to the set between the count and the read of
\* the oldest entry.
C33_ResetFromOwnWindow ==
    \A c \in CallIds :
        Answered(c)
        => IF calls[c].current_count = 0
           THEN calls[c].reset_at = calls[c].now + 60
           ELSE calls[c].reset_at - 60 > calls[c].now - 60

\* C34: every context authenticate_request attaches has at most one of
\* is_bootstrap and is_static_key set; with either set its customer_id is
\* None and its tier "admin"; with tier "public" its customer_id is None and
\* neither is set; resolved from a session token, the cache or the
\* credential store it has a customer_id and neither is set.
C34_ContextShape ==
    \A g \in GwIds :
        gw[g].ctx # << >>
        => LET ctx == gw[g].ctx[1]
           IN  /\ ~(ctx.is_bootstrap /\ ctx.is_static_key)
               /\ (ctx.is_bootstrap \/ ctx.is_static_key)
                  => (ctx.customer_id = None /\ ctx.tier = "admin")
               /\ ctx.tier = "public"
                  => /\ ctx.customer_id = None
                     /\ ~ctx.is_bootstrap /\ ~ctx.is_static_key
               /\ gw[g].via \in {"token", "cache", "store"}
                  => /\ ctx.customer_id # None
                     /\ ~ctx.is_bootstrap /\ ~ctx.is_static_key

\* C34 witness: the key that is configured both as the bootstrap key and as
\* a static key was presented where the bootstrap key is allowed, and the
\* context has is_bootstrap alone.
C34_Witness ==
    \E g \in GwIds :
        /\ gw[g].ctx # << >>
        /\ settings.bootstrap_api_key # None
        /\ settings.bootstrap_api_key \in settings.allowed_api_keys
        /\ gw[g].x_api_key = settings.bootstrap_api_key
        /\ gw[g].ctx[1].is_bootstrap
        /\ ~gw[g].ctx[1].is_static_key
        /\ gw[g].ctx[1].customer_id = None

\* A call that has returned a RateLimitInfo.
Returns(c) == calls[c].pc = "done"

\* C35: every RateLimitInfo returned has 0 <= remaining <= limit, and
\* remaining = 0 when is_exceeded; a call that took a slot with the store
\* working has remaining = max(0, limit - current_count - 1), at most
\* limit - 1.
C35_RemainingInRange ==
    \A c \in CallIds :
        Returns(c)
        => /\ 0 <= calls[c].remaining
           /\ calls[c].remaining <= calls[c].limit
           /\ calls[c].is_exceeded => calls[c].remaining = 0
           /\ (Answered(c) /\ calls[c].did_zadd)
              => /\ calls[c].remaining
                      = Max(0, calls[c].limit - calls[c].current_count - 1)
                 /\ calls[c].remaining <= calls[c].limit - 1

\* C35 witness: of three calls under a limit of two, the first is left with
\* one slot, the second took the last one, and the third was refused.
C35_Witness ==
    \E b, c, d \in CallIds :
        /\ Answered(b) /\ calls[b].did_zadd
        /\ calls[b].limit = 2
        /\ calls[b].current_count = 0
        /\ calls[b].remaining = 1
        /\ Answered(c) /\ calls[c].did_zadd
        /\ calls[c].limit = 2
        /\ calls[c].current_count = 1
        /\ calls[c].remaining = 0
        /\ Answered(d)
        /\ calls[d].is_exceeded
        /\ calls[d].remaining = 0

\* C36: a request answered 429 carries a reset_at later than the second at
\* which its response is built, so that the retry_after of the details and
\* of the Retry-After header is at least 1.
C36_RetryAfterPositive ==
    \A g \in GwIds :
        (gw[g].pc = "done" /\ gw[g].status = 429 /\ Exceeded(g))
        => gw[g].retry_after >= 1

\* C37: no step of get_rate_limit_info adds a timestamp to a window, so that
\* calls of the accessor take nothing from the quota of the requests.
C37_AccessorTakesNoSlot ==
    [][\A c \in CallIds :
          (calls[c].accessor /\ calls'[c] # calls[c])
          => \A k \in RateLimitKeys : zset'[k] \subseteq zset[k]]_vars

(***************************************************************************)
(* Claims about the tenants' payments and the windows of the identifiers.  *)
(***************************************************************************)

\* The tenant on whose behalf a refund or a status check was asked.
CallerOf(q) == IF q.op = "status" THEN q.caller ELSE q.customer_id

\* C38: a refund or a status check of a payment that belongs to another
\* tenant than the caller's changes no row of the payments table, calls no
\* provider, and ends with FORBIDDEN or PAYMENT_NOT_FOUND.
C38_OwnPaymentsOnly ==
    [][\A r \in ReqIds :
          LET q == reqs'[r]
          IN  ( /\ q # reqs[r]
                /\ q.op \in {"refund", "status"}
                /\ q.payment # << >>
                /\ CallerOf(q) \in Tenants
                /\ CallerOf(q) # q.payment[1].customer_id )
              => /\ payments' = payments
                 /\ ~q.called
                 /\ q.pc = "done"
                    => /\ q.outcome = "error"
                       /\ q.error \in {"FORBIDDEN", "PAYMENT_NOT_FOUND"}]_vars

\* The identifier of the call that takes a step (a call that is handed back
\* to the middleware leaves its slot).
IdentifierOfStep(c) ==
    IF calls'[c].identifier # None THEN calls'[c].identifier
    ELSE calls[c].identifier

\* C39: a step of check_rate_limit for one identifier leaves the sorted set
\* and the expiry of every other identifier's key as they were, and a
\* request on an exempt route changes no sorted set and no expiry and enters
\* no check_rate_limit call.
C39_WindowsIndependent ==
    [][/\ \A c \in CallIds :
             calls'[c] # calls[c]
             => \A other \in GatewayIdentifiers \ {IdentifierOfStep(c)} :
                   /\ zset'[get_rate_limit_key(other)]
                         = zset[get_rate_limit_key(other)]
                   /\ ttl'[get_rate_limit_key(other)]
                         = ttl[get_rate_limit_key(other)]
       /\ \A g \in GwIds :
             ( /\ gw'[g] # gw[g]
               /\ is_rate_limit_exempt(gw'[g].method, gw'[g].path) )
             => /\ zset' = zset
                /\ ttl' = ttl
                /\ calls' = calls]_vars

\* C39 witness: the tenant's request took a slot of the tenant's window
\* while the window of the client address, which is full, refused a request
\* of that address and was left as it was.
C39_Witness ==
    \E g, h \in GwIds :
        /\ gw[g].pc = "done" /\ gw[h].pc = "done"
        /\ gw[g].x_api_key = FirstKey
        /\ gw[g].rate_info # << >>
        /\ ~gw[g].rate_info[1].is_exceeded
        /\ zset[get_rate_limit_key("customer:tA")] # {}
        /\ gw[h].x_api_key = None
        /\ Exceeded(h)
        /\ zset[get_rate_limit_key("ip:" \o ClientIp)] = 1..RATE_LIMIT_WINDOW

(***************************************************************************)
(* Claims about the payment store when the provider adapter fails          *)
(***************************************************************************)

\* The step in which the adapter called for request r raises.
AdapterFails(r) ==
    /\ reqs[r].raised = None
    /\ reqs'[r].called
    /\ reqs'[r].raised \in CreateErrors \cup RefundErrors

\* C40: the step in which the provider adapter's call raises leaves the
\* payments table as it was: no row is inserted for a create_payment, and the
\* row a refund_payment looked up keeps its status, refund_id, refund_status
\* and refund_amount.
C40_AdapterFailureLeavesStore ==
    [][\A r \in ReqIds :
          AdapterFails(r)
          => /\ payments' = payments
             /\ reqs'[r].op = "create" => payments'[r] = << >>]_vars

\* C40 witness: with a database client, a create_payment whose adapter call
\* raised has no row, and a refund_payment whose adapter call raised left the
\* row it looked up as it read it.
C40_Witness ==
    /\ supabase_client
    /\ \E r, s \in ReqIds :
          /\ reqs[r].pc = "done" /\ reqs[s].pc = "done"
          /\ reqs[r].called /\ reqs[s].called
          /\ reqs[r].raised \in CreateErrors
          /\ reqs[s].raised \in RefundErrors
          /\ reqs[r].op = "create"
          /\ reqs[s].op = "refund"
          /\ payments[r] = << >>
          /\ \E n \in PayIds :
                /\ payments[n] # << >>
                /\ payments[n][1].id = reqs[s].payment_id
                /\ payments[n][1] = reqs[s].payment[1]
                /\ payments[n][1].status = "completed"

====
